---- MODULE Spec2Model ----
(***************************************************************************)
(* Session synchronisation core of login-mobile-app: the AuthState reducer *)
(* and subscription adapter (src/src/utils/AuthEventHandler.ts), the       *)
(* simulated bridge (createCustomMockBridge) and the native bridge's       *)
(* event forwarding (NativeAuthBridge).                                    *)
(*                                                                         *)
(* JavaScript null and undefined are both written NULL for strings and     *)
(* NullUser for user records; an absent event payload and the empty        *)
(* payload {} are both written NoData (the code reads payloads only        *)
(* through data?.field).                                                   *)
(***************************************************************************)
EXTENDS Integers, Sequences, FiniteSets, TLC

VARIABLES
    authState,          \* useAuthState: the adapter's AuthState
    bridgeRef,          \* useAuthState: bridgeRef.current, the bridge the listener is on
    refreshes,          \* useAuthState.refreshSession calls in flight: the manager asked, and
                        \* whether the effect made the call (the initial load)
    listeners,          \* NativeAuthBridge.listeners
    mockAuthListeners,  \* createCustomMockBridge: listeners, per bridge instance
    mockIsLoggedIn,     \* createCustomMockBridge: logged-in flag, per bridge instance
    mockUserInfo,       \* createCustomMockBridge: user record, per bridge instance
    timers,             \* setTimeout callbacks scheduled by startOAuth, in firing order
    last,               \* the last operation: its call, its result, the events it broadcast
    chain,              \* the success / signed_out / success run the last events form
    calls,              \* what the test listeners recorded during the last operation
    currentProvider,    \* AuthActions.currentProvider, per AuthActions instance
    inflight,           \* AuthActions verbs awaiting their manager call
    lastFlow,           \* the kind of the flow started last: "google" or "email"
    factory             \* ReactNativeAuthFactory: its static fields, the create calls in
                        \* flight, and what it created and returned since the last cleanup

nativeVars == <<listeners>>
mockVars == <<mockAuthListeners, mockIsLoggedIn, mockUserInfo, timers>>
actionVars == <<currentProvider, inflight, lastFlow>>
vars == <<authState, bridgeRef, refreshes, listeners, mockAuthListeners,
          mockIsLoggedIn, mockUserInfo, timers, last, chain, calls,
          currentProvider, inflight, lastFlow, factory>>

(***************************************************************************)
(* Bounds of the model.                                                    *)
(***************************************************************************)
MaxRefresh == 1
MaxTimers == 2
MaxListeners == 2
MaxFlows == 1

(***************************************************************************)
(* Values.                                                                 *)
(***************************************************************************)
NULL == "null"

NullUser == [id |-> NULL, email |-> NULL, nickname |-> NULL, provider |-> NULL]

\* Values Date.now() returns. The code stores the value in lastEvent and
\* never reads it, so one value stands for all.
Timestamps == {1000}

OAuthProviders == {"google", "kakao"}

Emails == {"a@example.com", "b@example.com"}

GenericAuthError == "auth error occurred"

SessionLookupFailed == "session lookup failed"

MockBridges == {"mock1", "mock2"}

NativeBridge == "native"

Adapter == "handleAuthEvent"

oauthUserInfo(provider) ==
    [id |-> "mock-user-123", email |-> "test@example.com",
     nickname |-> "Hong Gildong", provider |-> provider]

emailUserInfo(email) ==
    [id |-> "email-user-123", email |-> email,
     nickname |-> "email user", provider |-> "email"]

NoData == [provider |-> NULL, user |-> NullUser, error |-> NULL]

Data(provider, user, error) == [provider |-> provider, user |-> user, error |-> error]

NoEvent == [status |-> NULL, timestamp |-> 0, data |-> NoData]

initialAuthState ==
    [isLoggedIn |-> FALSE,
     isLoading |-> FALSE,
     userInfo |-> NullUser,
     isOAuthInProgress |-> FALSE,
     oauthProvider |-> NULL,
     error |-> NULL,
     lastEvent |-> NoEvent]

\* JavaScript truthiness of an optional string: null, undefined and "" are falsy.
Truthy(s) == s # NULL /\ s # ""

(***************************************************************************)
(* handleAuthEvent: the reducer, one operator per case of its switch.      *)
(***************************************************************************)
ReduceStarted(newState, data) ==
    [newState EXCEPT !.isOAuthInProgress = TRUE,
                     !.oauthProvider = IF Truthy(data.provider) THEN data.provider ELSE NULL,
                     !.isLoading = TRUE,
                     !.error = NULL]

\* Mutant: callback_received clears the error, as started does.
ReduceCallbackReceived_ClearsError(newState) ==
    [newState EXCEPT !.isLoading = TRUE, !.error = NULL]

ReduceCallbackReceived(newState) ==
    [newState EXCEPT !.isLoading = TRUE]

\* Mutant: success takes the event's user even when the event has none.
ReduceSuccess_AlwaysTakesUser(newState, data) ==
    [newState EXCEPT !.isLoggedIn = TRUE,
                     !.isOAuthInProgress = FALSE,
                     !.isLoading = FALSE,
                     !.error = NULL,
                     !.userInfo = data.user]

\* Mutant: success flips the login flag instead of setting it.
ReduceSuccess_FlipsLogin(newState, data) ==
    [newState EXCEPT !.isLoggedIn = ~@,
                     !.isOAuthInProgress = FALSE,
                     !.isLoading = FALSE,
                     !.error = NULL,
                     !.userInfo = IF data.user # NullUser THEN data.user ELSE @]

\* Mutant: success forgets the event's user.
ReduceSuccess_DropsUser(newState, data) ==
    [newState EXCEPT !.isLoggedIn = TRUE,
                     !.isOAuthInProgress = FALSE,
                     !.isLoading = FALSE,
                     !.error = NULL]

ReduceSuccess(newState, data) ==
    [newState EXCEPT !.isLoggedIn = TRUE,
                     !.isOAuthInProgress = FALSE,
                     !.isLoading = FALSE,
                     !.error = NULL,
                     !.userInfo = IF data.user # NullUser THEN data.user ELSE @]

\* Mutant: error takes the event's error text as it is, empty or absent too.
ReduceError_TakesAnyText(newState, data) ==
    [newState EXCEPT !.isOAuthInProgress = FALSE,
                     !.isLoading = FALSE,
                     !.error = data.error]

ReduceError(newState, data) ==
    [newState EXCEPT !.isOAuthInProgress = FALSE,
                     !.isLoading = FALSE,
                     !.error = IF Truthy(data.error) THEN data.error ELSE GenericAuthError]

\* Mutant: signed_out leaves the loading flag as it was.
ReduceSignedOut_KeepsLoading(newState) ==
    [newState EXCEPT !.isLoggedIn = FALSE,
                     !.userInfo = NullUser,
                     !.isOAuthInProgress = FALSE,
                     !.error = NULL,
                     !.oauthProvider = NULL]

ReduceSignedOut(newState) ==
    [newState EXCEPT !.isLoggedIn = FALSE,
                     !.userInfo = NullUser,
                     !.isOAuthInProgress = FALSE,
                     !.isLoading = FALSE,
                     !.error = NULL,
                     !.oauthProvider = NULL]

\* Mutant: an unknown status is dropped before lastEvent is written.
handleAuthEvent_DropsUnknown(prevState, status, data, timestamp) ==
    LET newState == [prevState EXCEPT
                        !.lastEvent = [status |-> status, timestamp |-> timestamp, data |-> data]]
    IN  CASE status = "started" -> ReduceStarted(newState, data)
          [] status = "callback_received" -> ReduceCallbackReceived(newState)
          [] status = "success" -> ReduceSuccess(newState, data)
          [] status = "error" -> ReduceError(newState, data)
          [] status = "token_refreshed" -> newState
          [] status = "signed_out" -> ReduceSignedOut(newState)
          [] OTHER -> prevState

handleAuthEvent(prevState, status, data, timestamp) ==
    LET newState == [prevState EXCEPT
                        !.lastEvent = [status |-> status, timestamp |-> timestamp, data |-> data]]
    IN  CASE status = "started" -> ReduceStarted(newState, data)
          [] status = "callback_received" -> ReduceCallbackReceived(newState)
          [] status = "success" -> ReduceSuccess(newState, data)
          [] status = "error" -> ReduceError(newState, data)
          [] status = "token_refreshed" -> newState
          [] status = "signed_out" -> ReduceSignedOut(newState)
          [] OTHER -> newState

(***************************************************************************)
(* The run of events the adapter's reducer applied last: stage 1 after a   *)
(* success carrying a user, 2 after a signed_out that follows it, 3 after  *)
(* a success carrying a user that follows that; any other write to the     *)
(* AuthState starts over.                                                  *)
(***************************************************************************)
NoChain == [stage |-> 0, first |-> NullUser, cur |-> NullUser]

ChainNext(c, status, data) ==
    CASE status = "success" /\ data.user # NullUser ->
            IF c.stage = 2
            THEN [stage |-> 3, first |-> c.first, cur |-> data.user]
            ELSE [stage |-> 1, first |-> NullUser, cur |-> data.user]
      [] status = "signed_out" /\ c.stage \in {1, 3} ->
            [stage |-> 2, first |-> c.cur, cur |-> NullUser]
      [] OTHER -> NoChain

(***************************************************************************)
(* The listeners a test registers besides the adapter's handleAuthEvent.   *)
(* Each records the call; "thrower" then throws, "once" then removes       *)
(* itself from the bridge, "guard" then calls signOut() on the bridge when *)
(* the status is success.                                                  *)
(***************************************************************************)
Spies == {"f", "g", "thrower", "once", "guard"}

Call(listener, status) == [listener |-> listener, status |-> status]

\* listeners.indexOf(listener), counted from 1; 0 when it is not there.
indexOf(ls, listener) ==
    IF \E i \in 1..Len(ls) : ls[i] = listener
    THEN CHOOSE i \in 1..Len(ls) : ls[i] = listener /\ \A j \in 1..(i - 1) : ls[j] # listener
    ELSE 0

RemoveAt(seq, i) == SubSeq(seq, 1, i - 1) \o SubSeq(seq, i + 1, Len(seq))

\* index = indexOf(listener); if (index > -1) splice(index, 1)
spliceListener(ls, listener) ==
    IF indexOf(ls, listener) > 0 THEN RemoveAt(ls, indexOf(ls, listener)) ELSE ls

(***************************************************************************)
(* A broadcast runs inside one call, on the bridge's fields as they are    *)
(* at that moment. w holds them: the listener array and session of the     *)
(* bridge, the AuthState the adapter's listener writes, what the test      *)
(* listeners recorded, and whether the listener just called threw.         *)
(*                                                                         *)
(* forEach visits the indices below the length the array had when the      *)
(* broadcast started, reads the array anew at each index and skips an      *)
(* index the array no longer has; each call is wrapped in try / catch.     *)
(***************************************************************************)
RECURSIVE forEach(_, _, _, _, _, _)
RECURSIVE listener(_, _, _, _, _)

\* Mutant: forEach without the try / catch around the call.
forEach_NoCatch(w, i, n, status, data, timestamp) ==
    IF i > n \/ w.threw THEN w
    ELSE IF i > Len(w.listeners) THEN forEach(w, i + 1, n, status, data, timestamp)
    ELSE forEach(listener(w, w.listeners[i], status, data, timestamp),
                 i + 1, n, status, data, timestamp)

forEach(w, i, n, status, data, timestamp) ==
    IF i > n THEN w
    ELSE IF i > Len(w.listeners) THEN forEach(w, i + 1, n, status, data, timestamp)
    ELSE forEach([listener(w, w.listeners[i], status, data, timestamp) EXCEPT !.threw = FALSE],
                 i + 1, n, status, data, timestamp)

\* mockAuthListeners.forEach(...) / this.listeners.forEach(...)
Broadcast(w, status, data, timestamp) ==
    forEach(w, 1, Len(w.listeners), status, data, timestamp)

updateSessionState(w, userInfo) == [w EXCEPT !.isLoggedIn = TRUE, !.userInfo = userInfo]

clearSessionState(w) == [w EXCEPT !.isLoggedIn = FALSE, !.userInfo = NullUser]

\* The body of the simulated bridge's signOut.
signOutBody(w, timestamp) == Broadcast(clearSessionState(w), "signed_out", NoData, timestamp)

\* One call listener(status, data) of the listener named l.
listener(w, l, status, data, timestamp) ==
    LET recorded == [w EXCEPT !.calls = Append(@, Call(l, status))]
    IN  CASE l = Adapter ->
                [w EXCEPT !.authState = handleAuthEvent(@, status, data, timestamp),
                          !.chain = ChainNext(@, status, data)]
          [] l = "thrower" -> [recorded EXCEPT !.threw = TRUE]
          [] l = "once" -> [recorded EXCEPT !.listeners = spliceListener(@, "once")]
          [] l = "guard" /\ status = "success" /\ w.bridge # NativeBridge ->
                signOutBody(recorded, timestamp)
          [] OTHER -> recorded

Event(status, data) == [status |-> status, data |-> data]

\* The record of an operation: its name, the bridge it ran on, its argument,
\* what it returned, the events it broadcast, and whether that bridge's
\* session was logged in when it was called.
Op(op, bridge, arg, ret, emitted, before) ==
    [op |-> op, bridge |-> bridge, arg |-> arg, ret |-> ret, emitted |-> emitted,
     before |-> before]

LoggedOutSession == [isLoggedIn |-> FALSE, userInfo |-> NullUser]

\* The fields a call on bridge b works on, as they are when it starts. The
\* native bridge keeps no session of its own.
World(b) ==
    [bridge |-> b,
     listeners |-> IF b = NativeBridge THEN listeners ELSE mockAuthListeners[b],
     isLoggedIn |-> IF b = NativeBridge THEN FALSE ELSE mockIsLoggedIn[b],
     userInfo |-> IF b = NativeBridge THEN NullUser ELSE mockUserInfo[b],
     authState |-> authState,
     chain |-> chain,
     calls |-> <<>>,
     threw |-> FALSE]

\* Mutant: the session variables are shared by all simulated bridge instances.
Commit_SharedSession(b, w) ==
    /\ IF b = NativeBridge
       THEN /\ listeners' = w.listeners
            /\ UNCHANGED <<mockAuthListeners, mockIsLoggedIn, mockUserInfo>>
       ELSE /\ mockAuthListeners' = [mockAuthListeners EXCEPT ![b] = w.listeners]
            /\ mockIsLoggedIn' = [x \in MockBridges |-> w.isLoggedIn]
            /\ mockUserInfo' = [x \in MockBridges |-> w.userInfo]
            /\ UNCHANGED listeners
    /\ authState' = w.authState
    /\ chain' = w.chain
    /\ calls' = w.calls
    /\ UNCHANGED <<actionVars, factory>>

\* The fields as the call on bridge b leaves them.
Commit(b, w) ==
    /\ IF b = NativeBridge
       THEN /\ listeners' = w.listeners
            /\ UNCHANGED <<mockAuthListeners, mockIsLoggedIn, mockUserInfo>>
       ELSE /\ mockAuthListeners' = [mockAuthListeners EXCEPT ![b] = w.listeners]
            /\ mockIsLoggedIn' = [mockIsLoggedIn EXCEPT ![b] = w.isLoggedIn]
            /\ mockUserInfo' = [mockUserInfo EXCEPT ![b] = w.userInfo]
            /\ UNCHANGED listeners
    /\ authState' = w.authState
    /\ chain' = w.chain
    /\ calls' = w.calls
    /\ UNCHANGED <<actionVars, factory>>

(***************************************************************************)
(* getSession of the bridge a manager delegates to: the simulated bridge   *)
(* returns its variables; the native bridge returns what the native module *)
(* reports, or {isLoggedIn: false} when the module is absent or fails.     *)
(***************************************************************************)
NativeSessions ==
    {LoggedOutSession,
     [isLoggedIn |-> TRUE, userInfo |-> oauthUserInfo("google")],
     [isLoggedIn |-> TRUE, userInfo |-> NullUser]}

getSession(b) ==
    IF b = NativeBridge
    THEN NativeSessions
    ELSE {[isLoggedIn |-> mockIsLoggedIn[b], userInfo |-> mockUserInfo[b]]}

(***************************************************************************)
(* useAuthState: refreshSession, clearError and the effect.                *)
(***************************************************************************)
RefreshBegin(state) == [state EXCEPT !.isLoading = TRUE, !.error = NULL]

\* Mutant: applying the session also ends the OAuth flow in progress.
RefreshApply_EndsOAuth(state, session) ==
    [state EXCEPT !.isLoggedIn = session.isLoggedIn,
                  !.userInfo = session.userInfo,
                  !.isLoading = FALSE,
                  !.isOAuthInProgress = FALSE,
                  !.oauthProvider = NULL,
                  !.error = NULL]

RefreshApply(state, session) ==
    [state EXCEPT !.isLoggedIn = session.isLoggedIn,
                  !.userInfo = session.userInfo,
                  !.isLoading = FALSE,
                  !.error = NULL]

\* Mutant: a failed session load leaves the loading flag set.
RefreshError_KeepsLoading(state, message) ==
    [state EXCEPT !.error = message]

RefreshError(state, message) ==
    [state EXCEPT !.isLoading = FALSE, !.error = message]

\* Messages of what getCurrentSession may throw: an Error's message, or the
\* generic text for a thrown value that is no Error.
RefreshFailures == {"E1", "", SessionLookupFailed}

\* The effect of useAuthState, run when the component mounts with a manager.
activate(b) ==
    /\ bridgeRef = NULL
    /\ Len(refreshes) < MaxRefresh
    /\ bridgeRef' = b
    /\ IF b = NativeBridge
       THEN /\ listeners' = Append(listeners, Adapter)
            /\ UNCHANGED mockAuthListeners
       ELSE /\ mockAuthListeners' = [mockAuthListeners EXCEPT ![b] = Append(@, Adapter)]
            /\ UNCHANGED listeners
    /\ authState' = RefreshBegin(authState)
    /\ refreshes' = Append(refreshes, [mgr |-> b, initial |-> TRUE])
    /\ last' = Op("activate", b, NULL, NULL, <<>>, FALSE)
    /\ chain' = NoChain
    /\ calls' = <<>>
    /\ UNCHANGED <<mockIsLoggedIn, mockUserInfo, timers, actionVars, factory>>

\* The effect of useAuthState, run again because the component was given
\* another manager: the cleanup of the previous run takes the listener off
\* the bridge it was on, then the effect runs for the manager of bridge b.
switchManager(b) ==
    /\ bridgeRef \in MockBridges
    /\ b \in MockBridges \ {bridgeRef}
    /\ Len(refreshes) < MaxRefresh
    /\ bridgeRef' = b
    /\ mockAuthListeners' = [mockAuthListeners EXCEPT
                                ![bridgeRef] = spliceListener(@, Adapter),
                                ![b] = Append(@, Adapter)]
    /\ authState' = RefreshBegin(authState)
    /\ refreshes' = Append(refreshes, [mgr |-> b, initial |-> TRUE])
    /\ last' = Op("switchManager", b, NULL, NULL, <<>>, FALSE)
    /\ chain' = NoChain
    /\ calls' = <<>>
    /\ UNCHANGED <<listeners, mockIsLoggedIn, mockUserInfo, timers, actionVars, factory>>

\* Mutant: the cleanup of the effect leaves the listener where it is.
deactivate_KeepsListener ==
    /\ bridgeRef \in MockBridges
    /\ bridgeRef' = NULL
    /\ last' = Op("deactivate", bridgeRef, NULL, NULL, <<>>, FALSE)
    /\ chain' = NoChain
    /\ calls' = <<>>
    /\ UNCHANGED <<authState, refreshes, mockAuthListeners, listeners, mockIsLoggedIn,
                   mockUserInfo, timers, actionVars, factory>>

\* The cleanup of the effect when the component unmounts or is given no
\* manager: the listener is taken off the bridge it was put on. Calls of
\* refreshSession that are awaiting go on.
deactivate ==
    /\ bridgeRef \in MockBridges
    /\ bridgeRef' = NULL
    /\ mockAuthListeners' = [mockAuthListeners EXCEPT ![bridgeRef] = spliceListener(@, Adapter)]
    /\ last' = Op("deactivate", bridgeRef, NULL, NULL, <<>>, FALSE)
    /\ chain' = NoChain
    /\ calls' = <<>>
    /\ UNCHANGED <<authState, refreshes, listeners, mockIsLoggedIn, mockUserInfo, timers,
                   actionVars, factory>>

\* refreshSession up to its await.
refreshSession ==
    /\ bridgeRef # NULL
    /\ Len(refreshes) < MaxRefresh
    /\ authState' = RefreshBegin(authState)
    /\ refreshes' = Append(refreshes, [mgr |-> bridgeRef, initial |-> FALSE])
    /\ last' = Op("refreshSession", NULL, NULL, NULL, <<>>, FALSE)
    /\ chain' = NoChain
    /\ calls' = <<>>
    /\ UNCHANGED <<bridgeRef, nativeVars, mockVars, actionVars, factory>>

\* refreshSession after its await: getCurrentSession has returned what the
\* manager's bridge reports as its session.
refreshDone(i) ==
    /\ \E session \in getSession(refreshes[i].mgr) :
          authState' = RefreshApply(authState, session)
    /\ refreshes' = RemoveAt(refreshes, i)
    /\ last' = Op("refreshDone", NULL, NULL, NULL, <<>>, FALSE)
    /\ chain' = NoChain
    /\ calls' = <<>>
    /\ UNCHANGED <<bridgeRef, nativeVars, mockVars, actionVars, factory>>

\* The same await in two steps. getCurrentSession is awaited: the bridge's
\* getSession runs at some point after the call (on the native bridge it is
\* itself an awaited native call), and the continuation that applies what
\* it read runs later still.
sessionRead(i) ==
    /\ "session" \notin DOMAIN refreshes[i]
    /\ \E session \in getSession(refreshes[i].mgr) :
          refreshes' = [refreshes EXCEPT ![i] =
                           [mgr |-> refreshes[i].mgr, initial |-> refreshes[i].initial,
                            session |-> session]]
    /\ last' = Op("sessionRead", refreshes[i].mgr, NULL, NULL, <<>>, FALSE)
    /\ chain' = NoChain
    /\ calls' = <<>>
    /\ UNCHANGED <<authState, bridgeRef, nativeVars, mockVars, actionVars, factory>>

sessionResolved(i) ==
    /\ "session" \in DOMAIN refreshes[i]
    /\ authState' = RefreshApply(authState, refreshes[i].session)
    /\ refreshes' = RemoveAt(refreshes, i)
    /\ last' = Op("sessionResolved", refreshes[i].mgr, NULL, NULL, <<>>, FALSE)
    /\ chain' = NoChain
    /\ calls' = <<>>
    /\ UNCHANGED <<bridgeRef, nativeVars, mockVars, actionVars, factory>>

\* refreshSession's catch: getCurrentSession rejected.
refreshFail(i) ==
    /\ \E message \in RefreshFailures :
          /\ authState' = RefreshError(authState, message)
          /\ last' = Op("refreshFail", NULL, NULL, NULL, <<>>, FALSE)
    /\ refreshes' = RemoveAt(refreshes, i)
    /\ chain' = NoChain
    /\ calls' = <<>>
    /\ UNCHANGED <<bridgeRef, nativeVars, mockVars, actionVars, factory>>

clearError ==
    /\ bridgeRef # NULL
    /\ authState' = [authState EXCEPT !.error = NULL]
    /\ last' = Op("clearError", NULL, NULL, NULL, <<>>, FALSE)
    /\ chain' = NoChain
    /\ calls' = <<>>
    /\ UNCHANGED <<bridgeRef, refreshes, nativeVars, mockVars, actionVars, factory>>

(***************************************************************************)
(* NativeAuthBridge: an event of the native module is forwarded to the     *)
(* registered listeners as it is.                                          *)
(***************************************************************************)
Statuses ==
    {"started", "callback_received", "success", "error", "token_refreshed", "signed_out"}

\* What the native module may send: the six statuses and one the reducer
\* does not know, each with any payload.
NativeStatuses == Statuses \cup {"future_status"}

NativeData ==
    {NoData,
     Data("google", oauthUserInfo("google"), NULL),
     Data("email", emailUserInfo("a@example.com"), NULL),
     Data(NULL, NullUser, "E1"),
     Data(NULL, NullUser, "")}

notifyListeners(w, status, data, timestamp) == Broadcast(w, status, data, timestamp)

handleNativeEvent(status, data, timestamp) ==
    /\ Commit(NativeBridge, notifyListeners(World(NativeBridge), status, data, timestamp))
    /\ last' = Op("handleNativeEvent", NativeBridge, Event(status, data), NULL,
                  <<Event(status, data)>>, FALSE)
    /\ UNCHANGED <<bridgeRef, refreshes, timers>>

(***************************************************************************)
(* createCustomMockBridge: the simulated bridge.                           *)
(***************************************************************************)
\* A URL is the sequence of its path segments; url.includes(path) is then
\* "path occurs in url as a contiguous run of segments".
includes(url, path) ==
    \E i \in 0..(Len(url) - Len(path)) :
        \A j \in 1..Len(path) : url[i + j] = path[j]

ApiBaseUrl == <<"https:", "api.example.com">>

LogoutPath == <<"api", "v1", "auth", "members", "logout">>
RequestPath == <<"api", "v1", "auth", "email", "request">>
VerifyPath == <<"api", "v1", "auth", "email", "verify">>
LoginPath == <<"api", "v1", "auth", "members", "email-login">>
GoogleLogoutPath == <<"api", "v1", "auth", "google", "logout">>
UserInfoPath == <<"api", "v1", "auth", "user-info">>

TestCode == "123456"

\* A request body is absent, text that is no JSON, or the JSON text of an
\* object with an email and a verifyCode (either may be missing: NULL).
NoBody == [kind |-> "none", email |-> NULL, verifyCode |-> NULL]
MalformedBody == [kind |-> "malformed", email |-> NULL, verifyCode |-> NULL]
JsonBody(email, verifyCode) == [kind |-> "json", email |-> email, verifyCode |-> verifyCode]

\* request.body ? JSON.parse(request.body) : {}
ParsedBody(body) ==
    IF body.kind = "json" THEN [email |-> body.email, verifyCode |-> body.verifyCode]
    ELSE [email |-> NULL, verifyCode |-> NULL]

Response(status, ok, success, user) ==
    [status |-> status, ok |-> ok, success |-> success, user |-> user]

Rejected == [status |-> 0, ok |-> FALSE, success |-> FALSE, user |-> NullUser]

\* The route callWithAuth takes: its if-chain, in the code's order.
Route(request) ==
    CASE includes(request.url, LogoutPath) -> "logout"
      [] includes(request.url, RequestPath) -> "request"
      [] includes(request.url, VerifyPath) -> "verify"
      [] includes(request.url, LoginPath) -> "login"
      [] includes(request.url, GoogleLogoutPath) -> "googleLogout"
      [] OTHER -> "default"

\* Mutant: startOAuth completes the flow at call time instead of scheduling it.
startOAuth_Eager(b, provider, timestamp) ==
    /\ Len(timers) < MaxTimers
    /\ Commit(b, Broadcast(updateSessionState(World(b), oauthUserInfo(provider)), "success",
                           Data(provider, oauthUserInfo(provider), NULL), timestamp))
    /\ timers' = Append(timers, [bridge |-> b, provider |-> provider])
    /\ last' = Op("startOAuth", b, provider, TRUE,
                  <<Event("success", Data(provider, oauthUserInfo(provider), NULL))>>,
                  mockIsLoggedIn[b])
    /\ UNCHANGED <<bridgeRef, refreshes>>

\* startOAuth: broadcasts started, schedules the completion, returns {success: true}.
startOAuth(b, provider, timestamp) ==
    /\ Len(timers) < MaxTimers
    /\ Commit(b, Broadcast(World(b), "started", Data(provider, NullUser, NULL), timestamp))
    /\ timers' = Append(timers, [bridge |-> b, provider |-> provider])
    /\ last' = Op("startOAuth", b, provider, TRUE,
                  <<Event("started", Data(provider, NullUser, NULL))>>, mockIsLoggedIn[b])
    /\ UNCHANGED <<bridgeRef, refreshes>>

\* Mutant: the completion broadcasts success without updating the session.
oauthTimer_NoSessionUpdate(timestamp) ==
    /\ timers # <<>>
    /\ LET b == Head(timers).bridge
           provider == Head(timers).provider
       IN  /\ Commit(b, Broadcast(World(b), "success",
                                  Data(provider, oauthUserInfo(provider), NULL), timestamp))
           /\ last' = Op("oauthTimer", b, provider, NULL,
                         <<Event("success", Data(provider, oauthUserInfo(provider), NULL))>>,
                         mockIsLoggedIn[b])
    /\ timers' = Tail(timers)
    /\ UNCHANGED <<bridgeRef, refreshes>>

\* The callback startOAuth gave to setTimeout. Every callback has the same
\* delay, so they run in the order they were scheduled.
oauthTimer(timestamp) ==
    /\ timers # <<>>
    /\ LET b == Head(timers).bridge
           provider == Head(timers).provider
           updated == updateSessionState(World(b), oauthUserInfo(provider))
       IN  /\ Commit(b, Broadcast(updated, "success",
                                  Data(provider, updated.userInfo, NULL), timestamp))
           /\ last' = Op("oauthTimer", b, provider, NULL,
                         <<Event("success", Data(provider, updated.userInfo, NULL))>>,
                         mockIsLoggedIn[b])
    /\ timers' = Tail(timers)
    /\ UNCHANGED <<bridgeRef, refreshes>>

\* Mutant: signOut cancels the pending completions.
signOut_CancelsTimers(b, timestamp) ==
    /\ Commit(b, signOutBody(World(b), timestamp))
    /\ last' = Op("signOut", b, NULL, TRUE, <<Event("signed_out", NoData)>>,
                  mockIsLoggedIn[b])
    /\ timers' = <<>>
    /\ UNCHANGED <<bridgeRef, refreshes>>

\* Mutant: signOut broadcasts only when a session was there to end.
signOut_OnlyWhenLoggedIn(b, timestamp) ==
    /\ IF mockIsLoggedIn[b]
       THEN /\ Commit(b, signOutBody(World(b), timestamp))
            /\ last' = Op("signOut", b, NULL, TRUE, <<Event("signed_out", NoData)>>,
                          mockIsLoggedIn[b])
       ELSE /\ Commit(b, clearSessionState(World(b)))
            /\ last' = Op("signOut", b, NULL, TRUE, <<>>, mockIsLoggedIn[b])
    /\ UNCHANGED <<bridgeRef, refreshes, timers>>

signOut(b, timestamp) ==
    /\ Commit(b, signOutBody(World(b), timestamp))
    /\ last' = Op("signOut", b, NULL, TRUE, <<Event("signed_out", NoData)>>,
                  mockIsLoggedIn[b])
    /\ UNCHANGED <<bridgeRef, refreshes, timers>>

\* callWithAuth, by the route the URL takes.
callLogout(b, request, timestamp) ==
    /\ Commit(b, Broadcast(clearSessionState(World(b)), "signed_out", NoData, timestamp))
    /\ last' = Op("callWithAuth", b, request, Response(200, TRUE, TRUE, NullUser),
                  <<Event("signed_out", NoData)>>, mockIsLoggedIn[b])

\* Mutant: the call is refused with status 401 when the session is logged out.
callRequest_RequiresSession(b, request) ==
    /\ Commit(b, World(b))
    /\ last' = Op("callWithAuth", b, request,
                  IF mockIsLoggedIn[b] THEN Response(200, TRUE, TRUE, NullUser)
                  ELSE Response(401, FALSE, FALSE, NullUser),
                  <<>>, mockIsLoggedIn[b])

callRequest(b, request) ==
    /\ Commit(b, World(b))
    /\ last' = Op("callWithAuth", b, request, Response(200, TRUE, TRUE, NullUser), <<>>,
                  mockIsLoggedIn[b])

\* Mutant: a matching verify-code call logs the session in, as email-login does.
callVerify_LogsIn(b, request) ==
    LET body == ParsedBody(request.body)
        user == emailUserInfo(body.email)
    IN  IF request.body.kind # "malformed" /\ body.verifyCode = TestCode
        THEN /\ Commit(b, Broadcast(updateSessionState(World(b), user), "success",
                                    Data("email", user, NULL), 1000))
             /\ last' = Op("callWithAuth", b, request, Response(200, TRUE, TRUE, NullUser),
                           <<Event("success", Data("email", user, NULL))>>,
                           mockIsLoggedIn[b])
        ELSE /\ Commit(b, World(b))
             /\ last' = Op("callWithAuth", b, request,
                           IF request.body.kind = "malformed" THEN Rejected
                           ELSE Response(400, FALSE, FALSE, NullUser),
                           <<>>, mockIsLoggedIn[b])

callVerify(b, request) ==
    /\ Commit(b, World(b))
    /\ last' = Op("callWithAuth", b, request,
                  IF request.body.kind = "malformed" THEN Rejected
                  ELSE IF ParsedBody(request.body).verifyCode = TestCode
                  THEN Response(200, TRUE, TRUE, NullUser)
                  ELSE Response(400, FALSE, FALSE, NullUser),
                  <<>>, mockIsLoggedIn[b])

\* Mutant: email-login accepts any code.
callLogin_AnyCode(b, request, timestamp) ==
    LET body == ParsedBody(request.body)
        user == emailUserInfo(body.email)
    IN  IF request.body.kind = "malformed"
        THEN /\ Commit(b, World(b))
             /\ last' = Op("callWithAuth", b, request, Rejected, <<>>, mockIsLoggedIn[b])
        ELSE /\ Commit(b, Broadcast(updateSessionState(World(b), user), "success",
                                    Data("email", user, NULL), timestamp))
             /\ last' = Op("callWithAuth", b, request, Response(200, TRUE, TRUE, user),
                           <<Event("success", Data("email", user, NULL))>>,
                           mockIsLoggedIn[b])

callLogin(b, request, timestamp) ==
    LET body == ParsedBody(request.body)
        user == emailUserInfo(body.email)
    IN  IF request.body.kind = "malformed"
        THEN /\ Commit(b, World(b))
             /\ last' = Op("callWithAuth", b, request, Rejected, <<>>, mockIsLoggedIn[b])
        ELSE IF body.verifyCode = TestCode
        THEN /\ Commit(b, Broadcast(updateSessionState(World(b), user), "success",
                                    Data("email", user, NULL), timestamp))
             /\ last' = Op("callWithAuth", b, request, Response(200, TRUE, TRUE, user),
                           <<Event("success", Data("email", user, NULL))>>,
                           mockIsLoggedIn[b])
        ELSE /\ Commit(b, World(b))
             /\ last' = Op("callWithAuth", b, request,
                           Response(400, FALSE, FALSE, NullUser), <<>>, mockIsLoggedIn[b])

\* The requests issued to the simulated bridge.
Codes == {TestCode, "000000"}

Request(path, body) == [url |-> ApiBaseUrl \o path, body |-> body]

Requests ==
    {Request(VerifyPath, body) :
        body \in {NoBody, MalformedBody} \cup {JsonBody(NULL, code) : code \in Codes}}
    \cup
    {Request(LoginPath, body) :
        body \in {NoBody, MalformedBody, JsonBody("a@example.com", "000000")}
                 \cup {JsonBody(email, TestCode) : email \in Emails}}
    \cup
    {Request(LogoutPath, NoBody), Request(GoogleLogoutPath, NoBody),
     Request(RequestPath, JsonBody("a@example.com", NULL)),
     Request(UserInfoPath, NoBody)}

\* The route each request takes through the if-chain.
Routes == [request \in Requests |-> Route(request)]

callWithAuth(b, request, timestamp) ==
    /\ LET route == Routes[request]
       IN  CASE route = "logout" -> callLogout(b, request, timestamp)
             [] route = "request" -> callRequest(b, request)
             [] route = "verify" -> callVerify(b, request)
             [] route = "login" -> callLogin(b, request, timestamp)
             [] route = "googleLogout" -> callLogout(b, request, timestamp)
             [] OTHER -> callRequest(b, request)
    /\ UNCHANGED <<bridgeRef, refreshes, timers>>

(***************************************************************************)
(* The listener registry of a bridge, and cleanup of the simulated one.    *)
(***************************************************************************)
WasLoggedIn(b) == IF b = NativeBridge THEN FALSE ELSE mockIsLoggedIn[b]

\* listeners.push(listener)
addAuthStatusListener(b, l) ==
    /\ Len(World(b).listeners) < MaxListeners
    /\ Commit(b, [World(b) EXCEPT !.listeners = Append(@, l)])
    /\ last' = Op("addAuthStatusListener", b, l, NULL, <<>>, WasLoggedIn(b))
    /\ UNCHANGED <<bridgeRef, refreshes, timers>>

\* removeAuthStatusListener; the operation records the index indexOf found.
\* Mutant: it removes the last listener of the array.
removeAuthStatusListener_Last(b, l) ==
    /\ Commit(b, [World(b) EXCEPT !.listeners =
                                    IF @ = <<>> THEN @ ELSE SubSeq(@, 1, Len(@) - 1)])
    /\ last' = Op("removeAuthStatusListener", b, l, indexOf(World(b).listeners, l), <<>>,
                  WasLoggedIn(b))
    /\ UNCHANGED <<bridgeRef, refreshes, timers>>

removeAuthStatusListener(b, l) ==
    /\ Commit(b, [World(b) EXCEPT !.listeners = spliceListener(@, l)])
    /\ last' = Op("removeAuthStatusListener", b, l, indexOf(World(b).listeners, l), <<>>,
                  WasLoggedIn(b))
    /\ UNCHANGED <<bridgeRef, refreshes, timers>>

\* Mutant: cleanup empties the listener array and keeps the session.
cleanup_KeepsSession(b) ==
    /\ Commit(b, [World(b) EXCEPT !.listeners = <<>>])
    /\ last' = Op("cleanup", b, NULL, NULL, <<>>, mockIsLoggedIn[b])
    /\ UNCHANGED <<bridgeRef, refreshes, timers>>

\* cleanup of the simulated bridge.
cleanup(b) ==
    /\ Commit(b, [clearSessionState(World(b)) EXCEPT !.listeners = <<>>])
    /\ last' = Op("cleanup", b, NULL, NULL, <<>>, mockIsLoggedIn[b])
    /\ UNCHANGED <<bridgeRef, refreshes, timers>>

(***************************************************************************)
(* AuthActions: the verbs of the action layer. A verb runs up to its await *)
(* of the manager call and continues when the call settles. The manager is *)
(* the AuthManager of @growgrammers/auth-core, whose code is not part of   *)
(* this repository: a call of it settles with any value of its declared    *)
(* type or throws any value.                                               *)
(*                                                                         *)
(* A verb's effects are the notifications it gave to onStateChange and the *)
(* manager calls it made, in the order they happened.                      *)
(***************************************************************************)
MaxInflight == 1

\* "actions" is an instance its caller keeps; "googleAuthActions" is the one
\* handleGoogleLogin constructs; "authActions" is the one LoginMobileApp
\* constructs each time it renders.
Instances == {"actions", "googleAuthActions", "authActions"}

OAuthStartFailed == "OAuth start failed"
OAuthLoginFailed == "OAuth login failed"
LogoutFailed == "logout failed"

Notify(state) == [kind |-> "notify", state |-> state]
Invoke(method, arg) == [kind |-> "call", method |-> method, arg |-> arg]

\* { success, message? } as the manager resolves it.
Result(success, message) == [kind |-> "result", success |-> success, message |-> message]

\* A thrown value: an Error with its message, or a value that is no Error.
Thrown(isError, message) == [kind |-> "throw", isError |-> isError, message |-> message]

Throws == {Thrown(TRUE, "E1"), Thrown(TRUE, ""), Thrown(FALSE, NULL)}

ManagerResults ==
    {Result(TRUE, NULL), Result(FALSE, NULL), Result(FALSE, ""), Result(FALSE, "M1")}

\* SessionInfo | null as getCurrentSession resolves it.
Session(null, isLoggedIn, userInfo) ==
    [null |-> null, isLoggedIn |-> isLoggedIn, userInfo |-> userInfo]

ManagerSessions ==
    {Session(TRUE, FALSE, NullUser),
     Session(FALSE, FALSE, NullUser),
     Session(FALSE, TRUE, oauthUserInfo("google")),
     Session(FALSE, TRUE, NullUser)}

SessionResult(session) == [kind |-> "result", session |-> session]

\* What callProtectedAPI of the manager resolves with.
ApiResult(value) == [kind |-> "result", value |-> value]

ApiValues == {Response(200, TRUE, TRUE, NullUser), Response(401, FALSE, FALSE, NullUser)}

\* config.body of callProtectedAPI: absent, an object, or a falsy value
\* such as 0 or "".
NoConfigBody == [kind |-> "absent", email |-> NULL, verifyCode |-> NULL]
FalsyConfigBody == [kind |-> "falsy", email |-> NULL, verifyCode |-> NULL]
ObjectConfigBody(email, verifyCode) ==
    [kind |-> "object", email |-> email, verifyCode |-> verifyCode]

Config(url, method, body) == [url |-> url, method |-> method, body |-> body]

Configs ==
    {Config(ApiBaseUrl \o UserInfoPath, "GET", NoConfigBody),
     Config(ApiBaseUrl \o LoginPath, "POST", ObjectConfigBody("a@example.com", TestCode)),
     Config(ApiBaseUrl \o LoginPath, "POST", FalsyConfigBody)}

\* config.body ? JSON.stringify(config.body) : undefined
stringifyBody(body) ==
    IF body.kind = "object" THEN JsonBody(body.email, body.verifyCode) ELSE NoBody

\* error instanceof Error ? error.message : fallback
caughtMessage(thrown, fallback) == IF thrown.isError THEN thrown.message ELSE fallback

\* The record of a verb: the instance it ran on, its argument, whether it
\* is awaiting its manager call or has returned, what it returned or threw,
\* its effects so far and how the manager call settled.
Verb(op, instance, arg, phase, ret, effects, outcome) ==
    [op |-> op, instance |-> instance, arg |-> arg, phase |-> phase, ret |-> ret,
     effects |-> effects, outcome |-> outcome]

NoOutcome == [kind |-> "pending"]
NoReturn == [kind |-> "pending"]
Returned(value) == [kind |-> "return", value |-> value]
Rethrown(thrown) == [kind |-> "throw", value |-> thrown]

\* A verb reaches its await.
Await(verb) ==
    /\ Len(inflight) < MaxInflight
    /\ inflight' = Append(inflight, verb)
    /\ last' = verb

\* A verb returns: the awaited call i settled with outcome.
Settle(i, outcome, ret, notified) ==
    /\ inflight' = RemoveAt(inflight, i)
    /\ last' = [inflight[i] EXCEPT !.phase = "returned",
                                   !.ret = ret,
                                   !.outcome = outcome,
                                   !.effects = @ \o notified]

\* What no verb touches: the adapter, the bridges, the test listeners and the
\* factory.
restVars ==
    <<authState, bridgeRef, refreshes, listeners, mockAuthListeners, mockIsLoggedIn,
      mockUserInfo, timers, chain, calls, factory>>

\* this.currentProvider = provider === 'google' ? 'google' : 'email'
providerOf(provider) == IF provider = "google" THEN "google" ELSE "email"

startOAuthOptimistic(provider) ==
    [isLoading |-> TRUE, error |-> NULL, isOAuthInProgress |-> TRUE,
     oauthProvider |-> provider]

\* AuthActions.startOAuth up to its await.
AuthActions_startOAuth(instance, provider) ==
    /\ Await(Verb("startOAuth", instance, provider, "awaiting", NoReturn,
                  <<Notify(startOAuthOptimistic(provider)),
                    Invoke("startNativeOAuth", provider)>>,
                  NoOutcome))
    /\ currentProvider' = [currentProvider EXCEPT ![instance] = providerOf(provider)]
    /\ lastFlow' = providerOf(provider)
    /\ UNCHANGED restVars

startOAuthFailed(error) ==
    [isLoading |-> FALSE, isOAuthInProgress |-> FALSE, error |-> error]

\* Mutant: startOAuth also notifies when the bridge reported success.
AuthActions_startOAuthSettled_NotifiesSuccess(i, outcome) ==
    /\ inflight[i].op = "startOAuth"
    /\ CASE outcome.kind = "throw" ->
                Settle(i, outcome, Returned(FALSE),
                       <<Notify(startOAuthFailed(caughtMessage(outcome, OAuthLoginFailed)))>>)
         [] outcome.kind = "result" /\ outcome.success ->
                Settle(i, outcome, Returned(TRUE), <<Notify([isLoading |-> FALSE])>>)
         [] OTHER ->
                Settle(i, outcome, Returned(FALSE),
                       <<Notify(startOAuthFailed(IF Truthy(outcome.message)
                                                 THEN outcome.message
                                                 ELSE OAuthStartFailed))>>)
    /\ UNCHANGED <<currentProvider, lastFlow, restVars>>

\* AuthActions.startOAuth after its await.
AuthActions_startOAuthSettled(i, outcome) ==
    /\ inflight[i].op = "startOAuth"
    /\ CASE outcome.kind = "throw" ->
                Settle(i, outcome, Returned(FALSE),
                       <<Notify(startOAuthFailed(caughtMessage(outcome, OAuthLoginFailed)))>>)
         [] outcome.kind = "result" /\ outcome.success ->
                Settle(i, outcome, Returned(TRUE), <<>>)
         [] OTHER ->
                Settle(i, outcome, Returned(FALSE),
                       <<Notify(startOAuthFailed(IF Truthy(outcome.message)
                                                 THEN outcome.message
                                                 ELSE OAuthStartFailed))>>)
    /\ UNCHANGED <<currentProvider, lastFlow, restVars>>

signOutStarted == [isLoading |-> TRUE, error |-> NULL]

\* Mutant: the success notification of signOut leaves the loading flag set.
signOutSucceeded_StillLoading ==
    [isLoggedIn |-> FALSE, userInfo |-> NullUser, isLoading |-> TRUE, error |-> NULL]

signOutSucceeded ==
    [isLoggedIn |-> FALSE, userInfo |-> NullUser, isLoading |-> FALSE, error |-> NULL]

signOutFailed(error) == [isLoading |-> FALSE, error |-> error]

\* AuthActions.signOut up to its await.
AuthActions_signOut(instance) ==
    /\ Await(Verb("signOut", instance, NULL, "awaiting", NoReturn,
                  <<Notify(signOutStarted),
                    Invoke("logout", currentProvider[instance])>>,
                  NoOutcome))
    /\ UNCHANGED <<currentProvider, lastFlow, restVars>>

\* AuthActions.signOut after its await.
AuthActions_signOutSettled(i, outcome) ==
    /\ inflight[i].op = "signOut"
    /\ CASE outcome.kind = "throw" ->
                Settle(i, outcome, Returned(FALSE),
                       <<Notify(signOutFailed(caughtMessage(outcome, LogoutFailed)))>>)
         [] outcome.kind = "result" /\ outcome.success ->
                Settle(i, outcome, Returned(TRUE), <<Notify(signOutSucceeded)>>)
         [] OTHER ->
                Settle(i, outcome, Returned(FALSE),
                       <<Notify(signOutFailed(IF Truthy(outcome.message)
                                              THEN outcome.message
                                              ELSE LogoutFailed))>>)
    /\ UNCHANGED <<currentProvider, lastFlow, restVars>>

\* AuthActions.callProtectedAPI up to its await.
AuthActions_callProtectedAPI(instance, config) ==
    /\ Await(Verb("callProtectedAPI", instance, config, "awaiting", NoReturn,
                  <<Invoke("callProtectedAPI",
                           Config(config.url, config.method, stringifyBody(config.body)))>>,
                  NoOutcome))
    /\ UNCHANGED <<currentProvider, lastFlow, restVars>>

\* Mutant: callProtectedAPI turns a failure into an error notification and
\* returns nothing.
AuthActions_callProtectedAPISettled_Swallows(i, outcome) ==
    /\ inflight[i].op = "callProtectedAPI"
    /\ IF outcome.kind = "throw"
       THEN Settle(i, outcome, Returned(Response(0, FALSE, FALSE, NullUser)),
                   <<Notify([error |-> caughtMessage(outcome, GenericAuthError)])>>)
       ELSE Settle(i, outcome, Returned(outcome.value), <<>>)
    /\ UNCHANGED <<currentProvider, lastFlow, restVars>>

\* AuthActions.callProtectedAPI after its await.
AuthActions_callProtectedAPISettled(i, outcome) ==
    /\ inflight[i].op = "callProtectedAPI"
    /\ IF outcome.kind = "throw"
       THEN Settle(i, outcome, Rethrown(outcome), <<>>)
       ELSE Settle(i, outcome, Returned(outcome.value), <<>>)
    /\ UNCHANGED <<currentProvider, lastFlow, restVars>>

\* AuthActions.refreshSession up to its await.
AuthActions_refreshSession(instance) ==
    /\ Await(Verb("refreshSession", instance, NULL, "awaiting", NoReturn,
                  <<Invoke("getCurrentSession", NULL)>>, NoOutcome))
    /\ UNCHANGED <<currentProvider, lastFlow, restVars>>

\* { isLoggedIn: session?.isLoggedIn || false, userInfo: session?.userInfo || null }
sessionRefreshed(session) ==
    [isLoggedIn |-> ~session.null /\ session.isLoggedIn,
     userInfo |-> IF session.null THEN NullUser ELSE session.userInfo]

\* AuthActions.refreshSession after its await.
AuthActions_refreshSessionSettled(i, outcome) ==
    /\ inflight[i].op = "refreshSession"
    /\ IF outcome.kind = "throw"
       THEN Settle(i, outcome, Returned(Session(TRUE, FALSE, NullUser)),
                   <<Notify([error |-> caughtMessage(outcome, SessionLookupFailed)])>>)
       ELSE Settle(i, outcome, Returned(outcome.session),
                   <<Notify(sessionRefreshed(outcome.session))>>)
    /\ UNCHANGED <<currentProvider, lastFlow, restVars>>

\* The outcomes a manager call of the verb may settle with.
Outcomes(op) ==
    CASE op \in {"startOAuth", "signOut"} -> ManagerResults \cup Throws
      [] op = "callProtectedAPI" -> {ApiResult(value) : value \in ApiValues} \cup Throws
      [] OTHER -> {SessionResult(session) : session \in ManagerSessions} \cup Throws

AuthActions_settled(i) ==
    \E outcome \in Outcomes(inflight[i].op) :
        \/ AuthActions_startOAuthSettled(i, outcome)
        \/ AuthActions_signOutSettled(i, outcome)
        \/ AuthActions_callProtectedAPISettled(i, outcome)
        \/ AuthActions_refreshSessionSettled(i, outcome)

(***************************************************************************)
(* NativeAuthBridge: the operations that call the native module. A call    *)
(* finds the module absent, or the module resolves a value of the declared *)
(* type, or it rejects with an Error or with a value that is no Error      *)
(* (message is then String(value)).                                        *)
(***************************************************************************)
ModuleNotLoaded == "native module not loaded"

Absent == [kind |-> "absent", isError |-> TRUE, message |-> ModuleNotLoaded]

Resolves(value) == [kind |-> "result", value |-> value]

NativeFailures == {Absent, Thrown(TRUE, "E1"), Thrown(TRUE, ""), Thrown(FALSE, "E2")}

\* { success: false, status: 500, headers: {}, error: errorMessage }
NativeCallFailed(message) == [success |-> FALSE, status |-> 500, error |-> message]

NativeResponses ==
    {[success |-> TRUE, status |-> 200, error |-> NULL],
     [success |-> FALSE, status |-> 401, error |-> "unauthorized"]}

NativeCall(input, outcome) == [input |-> input, outcome |-> outcome]

\* Mutant: a failed startOAuth tells the listeners nothing.
NativeAuthBridge_startOAuth_Silent(provider, outcome, timestamp) ==
    /\ Commit(NativeBridge, World(NativeBridge))
    /\ last' = Op("NativeAuthBridge.startOAuth", NativeBridge, NativeCall(provider, outcome),
                  IF outcome.kind = "result" THEN outcome.value ELSE FALSE, <<>>, FALSE)
    /\ UNCHANGED <<bridgeRef, refreshes, timers>>

NativeAuthBridge_startOAuth(provider, outcome, timestamp) ==
    /\ IF outcome.kind = "result"
       THEN /\ Commit(NativeBridge, World(NativeBridge))
            /\ last' = Op("NativeAuthBridge.startOAuth", NativeBridge,
                          NativeCall(provider, outcome), outcome.value, <<>>, FALSE)
       ELSE /\ Commit(NativeBridge,
                      notifyListeners(World(NativeBridge), "error",
                                      Data(provider, NullUser, outcome.message), timestamp))
            /\ last' = Op("NativeAuthBridge.startOAuth", NativeBridge,
                          NativeCall(provider, outcome), FALSE,
                          <<Event("error", Data(provider, NullUser, outcome.message))>>, FALSE)
    /\ UNCHANGED <<bridgeRef, refreshes, timers>>

\* An operation that answers without telling the listeners anything.
NativeAnswer(op, input, outcome, ret) ==
    /\ Commit(NativeBridge, World(NativeBridge))
    /\ last' = Op(op, NativeBridge, NativeCall(input, outcome), ret, <<>>, FALSE)
    /\ UNCHANGED <<bridgeRef, refreshes, timers>>

NativeAuthBridge_getSession(outcome) ==
    NativeAnswer("NativeAuthBridge.getSession", NULL, outcome,
                 IF outcome.kind = "result" THEN outcome.value ELSE LoggedOutSession)

NativeAuthBridge_signOut(outcome) ==
    NativeAnswer("NativeAuthBridge.signOut", NULL, outcome,
                 IF outcome.kind = "result" THEN outcome.value ELSE FALSE)

NativeAuthBridge_callWithAuth(request, outcome) ==
    NativeAnswer("NativeAuthBridge.callWithAuth", request, outcome,
                 IF outcome.kind = "result" THEN outcome.value
                 ELSE NativeCallFailed(outcome.message))

\* The module is there but has no isModuleReady.
NoModuleReady == [kind |-> "unimplemented", isError |-> FALSE, message |-> NULL]

NativeAuthBridge_isHealthy(outcome) ==
    NativeAnswer("NativeAuthBridge.isHealthy", NULL, outcome,
                 CASE outcome.kind = "result" -> outcome.value
                   [] outcome.kind = "unimplemented" -> TRUE
                   [] OTHER -> FALSE)

(***************************************************************************)
(* ReactNativeHttpClient: what request makes of the bridge's reply. A      *)
(* JavaScript value that may be missing is "true", "false" or "undefined". *)
(***************************************************************************)
JsBool(v) == IF v THEN "true" ELSE "false"

\* The object the simulated bridge returns: status, ok, data and headers.
\* Its success flag is a field of data.
MockReply(reply) ==
    [status |-> reply.status, ok |-> reply.ok,
     data |-> [success |-> reply.success, user |-> reply.user]]

\* bridgeResponse.success, read from the reply object itself.
OwnSuccess(bridgeResponse) ==
    IF "success" \in DOMAIN bridgeResponse THEN JsBool(bridgeResponse.success)
    ELSE "undefined"

\* isOk = success && status >= 200 && status < 300: a falsy success is the
\* value of the whole expression.
transformToHttpResponse(bridgeResponse) ==
    LET success == OwnSuccess(bridgeResponse)
        isOk == IF success # "true" THEN success
                ELSE JsBool(bridgeResponse.status >= 200 /\ bridgeResponse.status < 300)
    IN  [ok |-> isOk,
         status |-> IF bridgeResponse.status # 0 THEN bridgeResponse.status ELSE 200]

\* The error callWithAuth rejected with has no status.
createErrorResponse == [ok |-> "false", status |-> 500]

ReactNativeHttpClient_request(reply) ==
    IF reply = Rejected THEN createErrorResponse
    ELSE transformToHttpResponse(MockReply(reply))

(***************************************************************************)
(* ReactNativeAuthFactory with useMockBridge: createEmailAuthManager and   *)
(* createGoogleAuthManager, each up to its first await and then from await *)
(* to await, and cleanup. A bridge the factory creates is a simulated      *)
(* bridge nobody has used; a manager is identified by the bridge it was    *)
(* built around.                                                           *)
(***************************************************************************)
FactoryProviders == {"email", "google"}

NoFactory ==
    [bridge |-> NULL, emailAuthManager |-> NULL, googleAuthManager |-> NULL,
     pending |-> <<>>, created |-> {}, returned |-> {}]

cachedManager(provider) ==
    IF provider = "email" THEN factory.emailAuthManager ELSE factory.googleAuthManager

\* A bridge object createCustomMockBridge can return: one no one holds.
Fresh(b) ==
    /\ b \in MockBridges
    /\ b # bridgeRef
    /\ b # factory.bridge
    /\ \A made \in factory.created : made.bridge # b
    /\ \A i \in 1..Len(factory.pending) : factory.pending[i].bridge # b
    /\ mockAuthListeners[b] = <<>>
    /\ ~mockIsLoggedIn[b]

factoryRest ==
    <<authState, bridgeRef, refreshes, listeners, timers, actionVars>>

\* createEmailAuthManager / createGoogleAuthManager up to the first await:
\* the cached manager is returned, or initializeBridge is called, which
\* creates the bridge before it returns its promise.
createAuthManager(provider) ==
    /\ IF cachedManager(provider) # NULL
       THEN /\ factory' = [factory EXCEPT !.returned =
                               @ \cup {[provider |-> provider,
                                         manager |-> cachedManager(provider)]}]
            /\ last' = Op("createAuthManager", NULL, provider, cachedManager(provider),
                          <<>>, FALSE)
       ELSE \E b \in MockBridges :
               /\ Fresh(b)
               /\ factory' = [factory EXCEPT
                                 !.pending = Append(@, [provider |-> provider, bridge |-> b,
                                                        stage |-> "initializeBridge"]),
                                 !.created = @ \cup {[provider |-> provider, bridge |-> b]}]
               /\ last' = Op("createAuthManager", b, provider, NULL, <<>>, FALSE)
    /\ chain' = NoChain
    /\ calls' = <<>>
    /\ UNCHANGED <<factoryRest, mockAuthListeners, mockIsLoggedIn, mockUserInfo>>

\* After await initializeBridge: the client and the manager are built and
\* performHealthCheck runs up to its await.
initializeBridge(i) ==
    /\ factory.pending[i].stage = "initializeBridge"
    /\ factory' = [factory EXCEPT !.pending[i].stage = "performHealthCheck"]
    /\ last' = Op("initializeBridge", factory.pending[i].bridge,
                  factory.pending[i].provider, NULL, <<>>, FALSE)
    /\ chain' = NoChain
    /\ calls' = <<>>
    /\ UNCHANGED <<factoryRest, mockAuthListeners, mockIsLoggedIn, mockUserInfo>>

\* After await performHealthCheck: the bridge and the manager are stored and
\* the manager is returned.
performHealthCheck(i) ==
    LET call == factory.pending[i]
    IN  /\ call.stage = "performHealthCheck"
        /\ factory' = [factory EXCEPT
                          !.bridge = call.bridge,
                          !.emailAuthManager =
                              IF call.provider = "email" THEN call.bridge ELSE @,
                          !.googleAuthManager =
                              IF call.provider = "google" THEN call.bridge ELSE @,
                          !.pending = RemoveAt(@, i),
                          !.returned = @ \cup {[provider |-> call.provider,
                                                 manager |-> call.bridge]}]
        /\ last' = Op("performHealthCheck", call.bridge, call.provider, call.bridge,
                      <<>>, FALSE)
        /\ chain' = NoChain
        /\ calls' = <<>>
        /\ UNCHANGED <<factoryRest, mockAuthListeners, mockIsLoggedIn, mockUserInfo>>

\* ReactNativeAuthFactory.cleanup: the bridge in the static field is cleaned
\* up and the three fields are set to null. The call's argument lists the
\* bridges created since the cleanup before.
ReactNativeAuthFactory_cleanup ==
    LET b == factory.bridge
    IN  /\ IF b # NULL
           THEN /\ mockAuthListeners' = [mockAuthListeners EXCEPT ![b] = <<>>]
                /\ mockIsLoggedIn' = [mockIsLoggedIn EXCEPT ![b] = FALSE]
                /\ mockUserInfo' = [mockUserInfo EXCEPT ![b] = NullUser]
           ELSE UNCHANGED <<mockAuthListeners, mockIsLoggedIn, mockUserInfo>>
        /\ factory' = [factory EXCEPT !.bridge = NULL,
                                      !.emailAuthManager = NULL,
                                      !.googleAuthManager = NULL,
                                      !.created = {},
                                      !.returned = {}]
        /\ last' = Op("ReactNativeAuthFactory.cleanup", b,
                      {made.bridge : made \in factory.created}, NULL, <<>>, FALSE)
        /\ chain' = NoChain
        /\ calls' = <<>>
        /\ UNCHANGED factoryRest

(***************************************************************************)
(* LoginMobileApp: the handlers that use AuthActions.                      *)
(***************************************************************************)
\* handleGoogleLogin up to the await inside startOAuth: clearError(), then
\* startOAuth('google') on an AuthActions constructed for the call. The
\* state it sets makes the component render, which constructs authActions.
handleGoogleLogin ==
    /\ Await(Verb("startOAuth", "googleAuthActions", "google", "awaiting", NoReturn,
                  <<Notify(startOAuthOptimistic("google")),
                    Invoke("startNativeOAuth", "google")>>,
                  NoOutcome))
    /\ currentProvider' = [currentProvider EXCEPT !["googleAuthActions"] = providerOf("google"),
                                                  !["authActions"] = "email"]
    /\ lastFlow' = providerOf("google")
    /\ authState' = [authState EXCEPT !.error = NULL]
    /\ chain' = NoChain
    /\ calls' = <<>>
    /\ UNCHANGED <<bridgeRef, refreshes, nativeVars, mockVars, factory>>

\* handleLogout up to the await inside signOut.
handleLogout == AuthActions_signOut("authActions")

(***************************************************************************)
(* Specifications.                                                         *)
(***************************************************************************)
Init ==
    /\ authState = initialAuthState
    /\ bridgeRef = NULL
    /\ refreshes = <<>>
    /\ listeners = <<>>
    /\ mockAuthListeners = [b \in MockBridges |-> <<>>]
    /\ mockIsLoggedIn = [b \in MockBridges |-> FALSE]
    /\ mockUserInfo = [b \in MockBridges |-> NullUser]
    /\ timers = <<>>
    /\ last = Op("init", NULL, NULL, NULL, <<>>, FALSE)
    /\ chain = NoChain
    /\ calls = <<>>
    /\ currentProvider = [instance \in Instances |-> "email"]
    /\ inflight = <<>>
    /\ lastFlow = "email"
    /\ factory = NoFactory

AdapterNext ==
    \/ refreshSession
    \/ \E i \in 1..Len(refreshes) : refreshDone(i)
    \/ \E i \in 1..Len(refreshes) : refreshFail(i)
    \/ clearError

\* useMockBridge = false: the adapter on a NativeAuthBridge.
NativeNext ==
    \/ activate(NativeBridge)
    \/ \E status \in NativeStatuses, data \in NativeData, timestamp \in Timestamps :
          handleNativeEvent(status, data, timestamp)
    \/ AdapterNext

SpecNative == Init /\ [][NativeNext]_vars

\* The operations of one simulated bridge instance.
BridgeNext(b) ==
    \/ \E provider \in OAuthProviders, timestamp \in Timestamps :
          startOAuth(b, provider, timestamp)
    \/ \E timestamp \in Timestamps : oauthTimer(timestamp)
    \/ \E timestamp \in Timestamps : signOut(b, timestamp)
    \/ \E request \in Requests, timestamp \in Timestamps :
          callWithAuth(b, request, timestamp)

\* useMockBridge = true: the adapter on a simulated bridge.
MockNext ==
    \/ activate("mock1")
    \/ BridgeNext("mock1")
    \/ AdapterNext

SpecMock == Init /\ [][MockNext]_vars

\* The calls that write the session, besides the OAuth flow.
SessionRequests ==
    {Request(LogoutPath, NoBody), Request(LoginPath, JsonBody("a@example.com", TestCode))}

FairNext ==
    \/ activate("mock1")
    \/ \E provider \in OAuthProviders, timestamp \in Timestamps :
          startOAuth("mock1", provider, timestamp)
    \/ \E timestamp \in Timestamps : oauthTimer(timestamp)
    \/ \E timestamp \in Timestamps : signOut("mock1", timestamp)
    \/ \E request \in SessionRequests, timestamp \in Timestamps :
          callWithAuth("mock1", request, timestamp)
    \/ AdapterNext

\* The JavaScript timer queue runs every callback that is due.
FairMock ==
    /\ Init
    /\ [][FairNext]_vars
    /\ WF_vars(\E timestamp \in Timestamps : oauthTimer(timestamp))

\* The adapter on simulated bridges, switched between the two managers,
\* while a caller acts on the manager the adapter is on.
SwitchNext ==
    \/ activate("mock1")
    \/ \E b \in MockBridges : switchManager(b)
    \/ \E timestamp \in Timestamps :
          /\ bridgeRef \in MockBridges
          /\ Len(timers) < MaxFlows
          /\ startOAuth(bridgeRef, "google", timestamp)
    \/ \E timestamp \in Timestamps : oauthTimer(timestamp)
    \/ \E timestamp \in Timestamps :
          /\ bridgeRef \in MockBridges
          /\ signOut(bridgeRef, timestamp)
    \/ \E timestamp \in Timestamps :
          /\ bridgeRef \in MockBridges
          /\ callWithAuth(bridgeRef, Request(LoginPath, JsonBody("a@example.com", TestCode)),
                          timestamp)
    \/ AdapterNext

\* Timers fire and awaited getCurrentSession calls settle.
FairSwitch ==
    /\ Init
    /\ [][SwitchNext]_vars
    /\ WF_vars(\E timestamp \in Timestamps : oauthTimer(timestamp))
    /\ WF_vars(\E i \in 1..Len(refreshes) : refreshDone(i) \/ refreshFail(i))

(***************************************************************************)
(* Test listeners on one bridge, simulated or native, with no adapter      *)
(* mounted. A test drives one bridge at a time: the other one is as it was *)
(* constructed.                                                            *)
(***************************************************************************)
Pristine(b) ==
    IF b = NativeBridge
    THEN listeners = <<>>
    ELSE mockAuthListeners[b] = <<>> /\ ~mockIsLoggedIn[b] /\ timers = <<>>

TestListeners == {"f", "thrower", "once", "guard"}

\* The events the native module sends during the tests.
TestEvents ==
    {Event("success", Data("google", oauthUserInfo("google"), NULL)),
     Event("signed_out", NoData)}

RegistryNext(b) ==
    \/ \E l \in TestListeners : addAuthStatusListener(b, l)
    \/ \E l \in TestListeners : removeAuthStatusListener(b, l)

ListenersNext ==
    \/ /\ Pristine(NativeBridge)
       /\ \/ RegistryNext("mock1")
          \/ \E timestamp \in Timestamps : startOAuth("mock1", "google", timestamp)
          \/ \E timestamp \in Timestamps : oauthTimer(timestamp)
          \/ \E timestamp \in Timestamps : signOut("mock1", timestamp)
          \/ \E request \in SessionRequests, timestamp \in Timestamps :
                callWithAuth("mock1", request, timestamp)
    \/ /\ Pristine("mock1")
       /\ \/ RegistryNext(NativeBridge)
          \/ \E event \in TestEvents, timestamp \in Timestamps :
                handleNativeEvent(event.status, event.data, timestamp)

SpecListeners == Init /\ [][ListenersNext]_vars

(***************************************************************************)
(* Two simulated bridge instances side by side (one per manager the        *)
(* factory creates), each with its own test listener, and no adapter.      *)
(***************************************************************************)
ListenerOf(b) == IF b = "mock1" THEN "f" ELSE "g"

\* The email calls and the logout call.
EmailRequests ==
    SessionRequests \cup {Request(RequestPath, JsonBody("a@example.com", NULL))}

InstanceNext(b) ==
    \/ addAuthStatusListener(b, ListenerOf(b))
    \/ removeAuthStatusListener(b, ListenerOf(b))
    \/ \E timestamp \in Timestamps : startOAuth(b, "google", timestamp)
    \/ \E timestamp \in Timestamps : signOut(b, timestamp)
    \/ \E request \in EmailRequests, timestamp \in Timestamps :
          callWithAuth(b, request, timestamp)
    \/ cleanup(b)

TwoBridgesNext ==
    \/ \E b \in MockBridges : InstanceNext(b)
    \/ \E timestamp \in Timestamps : oauthTimer(timestamp)

SpecTwoBridges == Init /\ [][TwoBridgesNext]_vars

(***************************************************************************)
(* C1: whenever the reducer has just applied signed_out, whatever the      *)
(* state before and the payload, the AuthState is logged out with no user, *)
(* no OAuth flow in progress and not loading.                              *)
(***************************************************************************)
AppliedEvent(status) ==
    /\ last.op = "handleNativeEvent"
    /\ last.arg.status = status
    /\ Adapter \in {listeners[i] : i \in 1..Len(listeners)}

SignedOutIsSink ==
    AppliedEvent("signed_out") =>
        /\ authState.isLoggedIn = FALSE
        /\ authState.userInfo = NullUser
        /\ authState.isOAuthInProgress = FALSE
        /\ authState.isLoading = FALSE

SignedOutIsSinkWitness ==
    /\ AppliedEvent("signed_out")
    /\ last.arg.data.user # NullUser
    /\ authState.isLoggedIn = FALSE
    /\ authState.userInfo = NullUser
    /\ Len(refreshes) > 0

(***************************************************************************)
(* C2: in every AuthState the adapter reaches, isLoggedIn = TRUE implies   *)
(* userInfo is not null.                                                   *)
(***************************************************************************)
LoggedInHasUser == authState.isLoggedIn => authState.userInfo # NullUser

(***************************************************************************)
(* C3: in every AuthState the adapter reaches, isOAuthInProgress = TRUE    *)
(* implies isLoading = TRUE.                                               *)
(***************************************************************************)
OAuthInProgressIsLoading == authState.isOAuthInProgress => authState.isLoading

(***************************************************************************)
(* C4: after the reducer applied success{user}, signed_out and             *)
(* success{user2} in a row, the AuthState is logged in as user2 and holds  *)
(* nothing of the first user.                                              *)
(***************************************************************************)
NoStaleUser ==
    chain.stage = 3 =>
        /\ authState.isLoggedIn
        /\ authState.userInfo = chain.cur
        /\ authState.userInfo = last.arg.data.user

NoStaleUserWitness ==
    /\ chain.stage = 3
    /\ chain.first # NullUser
    /\ chain.first.id # chain.cur.id
    /\ chain.first.email # chain.cur.email
    /\ authState.userInfo = chain.cur

LoginRequests ==
    {request \in Requests : Route(request) = "login" /\ request.body.kind # "malformed"}

VerifyRequests ==
    {request \in Requests : Route(request) = "verify" /\ request.body.kind # "malformed"}

Registered(b) == \E i \in 1..Len(mockAuthListeners[b]) : mockAuthListeners[b][i] = Adapter

StartedEvent(provider) == Event("started", Data(provider, NullUser, NULL))

OAuthSuccessEvent(provider) == Event("success", Data(provider, oauthUserInfo(provider), NULL))

EveryOAuthCompletesOnce ==
    /\ \A b \in MockBridges, provider \in OAuthProviders :
          (last.op = "startOAuth" /\ last.bridge = b /\ last.arg = provider)
              ~> (/\ last.op = "oauthTimer"
                  /\ last.bridge = b
                  /\ last.arg = provider
                  /\ last.emitted = <<OAuthSuccessEvent(provider)>>
                  /\ mockIsLoggedIn[b]
                  /\ mockUserInfo[b] = oauthUserInfo(provider))
    /\ [][/\ Len(timers') > Len(timers) =>
                /\ last'.op = "startOAuth"
                /\ timers' = Append(timers, [bridge |-> last'.bridge, provider |-> last'.arg])
          /\ Len(timers') < Len(timers) =>
                /\ last'.op = "oauthTimer"
                /\ timers' = Tail(timers)
                /\ last'.bridge = Head(timers).bridge
                /\ last'.emitted = <<OAuthSuccessEvent(Head(timers).provider)>>
          /\ Len(timers') = Len(timers) => timers' = timers
         ]_vars

EveryOAuthCompletesOnceWitness ==
    /\ last.op = "oauthTimer"
    /\ last.arg = "kakao"
    /\ ~last.before
    /\ Registered(last.bridge)
    /\ authState.lastEvent.status = "success"
    /\ authState.oauthProvider = NULL
    /\ mockIsLoggedIn[last.bridge]
    /\ mockUserInfo[last.bridge] = oauthUserInfo("kakao")
    /\ timers # <<>>

(***************************************************************************)
(* C7: when the completion of an OAuth flow fires on a bridge whose        *)
(* session has been signed out in the meantime, the bridge's session is    *)
(* logged in again as the fabricated user, and so is the AuthState of an   *)
(* adapter on that bridge.                                                 *)
(***************************************************************************)
LateSuccessResurrects ==
    [][\A timestamp \in Timestamps :
          (/\ timers # <<>>
           /\ ~mockIsLoggedIn[Head(timers).bridge]
           /\ oauthTimer(timestamp)) =>
              LET b == Head(timers).bridge
                  user == oauthUserInfo(Head(timers).provider)
              IN  /\ mockIsLoggedIn'[b]
                  /\ mockUserInfo'[b] = user
                  /\ Registered(b) =>
                        /\ authState'.isLoggedIn
                        /\ authState'.userInfo = user
      ]_vars

LateSuccessResurrectsWitness ==
    /\ last.op = "oauthTimer"
    /\ ~last.before
    /\ chain.stage = 3
    /\ Registered(last.bridge)
    /\ mockIsLoggedIn[last.bridge]
    /\ authState.isLoggedIn
    /\ authState.userInfo = oauthUserInfo(last.arg)

(***************************************************************************)
(* C8: an email-login call whose body parses succeeds exactly when its     *)
(* verifyCode is "123456": it then returns ok with status 200, broadcasts  *)
(* one success event with provider email and a user carrying the submitted *)
(* email, and logs the session in (an adapter on the bridge is logged in   *)
(* as that user). With any other code it returns ok = false with status    *)
(* 400, broadcasts nothing and leaves the session and the AuthState as     *)
(* they were.                                                              *)
(***************************************************************************)
EmailLoginChecksCode ==
    [][\A b \in MockBridges, request \in LoginRequests, timestamp \in Timestamps :
          (/\ last'.op = "callWithAuth"
           /\ last'.arg = request
           /\ callWithAuth(b, request, timestamp)) =>
              IF request.body.kind = "json" /\ request.body.verifyCode = "123456"
              THEN /\ last'.ret.ok
                   /\ last'.ret.status = 200
                   /\ last'.emitted =
                         <<Event("success",
                                 Data("email", emailUserInfo(request.body.email), NULL))>>
                   /\ mockIsLoggedIn'[b]
                   /\ mockUserInfo'[b].email = request.body.email
                   /\ Registered(b) =>
                         /\ authState'.isLoggedIn
                         /\ authState'.userInfo = emailUserInfo(request.body.email)
              ELSE /\ ~last'.ret.ok
                   /\ last'.ret.status = 400
                   /\ last'.emitted = <<>>
                   /\ UNCHANGED <<mockIsLoggedIn, mockUserInfo, authState>>
      ]_vars

EmailLoginChecksCodeWitness ==
    /\ last.op = "callWithAuth"
    /\ Route(last.arg) = "login"
    /\ last.arg.body.verifyCode = "000000"
    /\ last.ret.status = 400
    /\ Registered(last.bridge)
    /\ mockIsLoggedIn[last.bridge]
    /\ authState.isLoggedIn
    /\ authState.error = NULL

(***************************************************************************)
(* C9, as claimed: a verify-code call whose body parses succeeds exactly   *)
(* when its verifyCode is "123456", and on a match it broadcasts a success *)
(* event and logs the session in; on a mismatch it fails and broadcasts    *)
(* nothing.                                                                *)
(***************************************************************************)
VerifyMatchLogsIn ==
    (/\ last.op = "callWithAuth"
     /\ Route(last.arg) = "verify"
     /\ last.arg.body.kind # "malformed") =>
        IF last.arg.body.verifyCode = "123456"
        THEN /\ last.ret.ok
             /\ Len(last.emitted) = 1
             /\ last.emitted[1].status = "success"
             /\ mockIsLoggedIn[last.bridge]
        ELSE /\ ~last.ret.ok
             /\ last.emitted = <<>>

(***************************************************************************)
(* C9, amended: a verify-code call whose body parses returns ok with       *)
(* status 200 exactly when its verifyCode is "123456" and ok = false with  *)
(* status 400 otherwise; in both cases it broadcasts nothing and leaves    *)
(* the session and the AuthState as they were.                             *)
(***************************************************************************)
VerifyOnlyChecksCode ==
    [][\A b \in MockBridges, request \in VerifyRequests, timestamp \in Timestamps :
          (/\ last'.op = "callWithAuth"
           /\ last'.arg = request
           /\ callWithAuth(b, request, timestamp)) =>
              /\ last'.ret.ok = (request.body.verifyCode = "123456")
              /\ last'.ret.status = IF request.body.verifyCode = "123456" THEN 200 ELSE 400
              /\ last'.emitted = <<>>
              /\ UNCHANGED <<mockIsLoggedIn, mockUserInfo, authState>>
      ]_vars

VerifyOnlyChecksCodeWitness ==
    /\ last.op = "callWithAuth"
    /\ Route(last.arg) = "verify"
    /\ last.arg.body.verifyCode = "123456"
    /\ last.ret.ok
    /\ last.emitted = <<>>
    /\ Registered(last.bridge)
    /\ ~mockIsLoggedIn[last.bridge]
    /\ ~authState.isLoggedIn

(***************************************************************************)
(* C10: every signOut() call, also on a session that is already logged     *)
(* out, returns true, leaves the session logged out with no user and       *)
(* broadcasts exactly one signed_out event; so does every call to a logout *)
(* endpoint, which returns ok with status 200.                             *)
(***************************************************************************)
(* The action layer beside the adapter: a caller uses the verbs of one     *)
(* AuthActions instance and the app's handlers, while the bridge the       *)
(* adapter listens to emits whatever it emits.                             *)
(***************************************************************************)
ActionEvents ==
    {Event("started", Data("google", NullUser, NULL)),
     Event("success", Data("google", oauthUserInfo("google"), NULL)),
     Event("error", Data(NULL, NullUser, "E1")),
     Event("signed_out", NoData)}

ActionsNext ==
    \/ activate(NativeBridge)
    \/ \E event \in ActionEvents, timestamp \in Timestamps :
          handleNativeEvent(event.status, event.data, timestamp)
    \/ \E provider \in OAuthProviders : AuthActions_startOAuth("actions", provider)
    \/ AuthActions_signOut("actions")
    \/ \E config \in Configs : AuthActions_callProtectedAPI("actions", config)
    \/ AuthActions_refreshSession("actions")
    \/ \E i \in 1..Len(inflight) : AuthActions_settled(i)
    \/ handleGoogleLogin
    \/ handleLogout

SpecActions == Init /\ [][ActionsNext]_vars

(***************************************************************************)
(* The life of one adapter on the two managers of the app: it is mounted   *)
(* with one, given the other, unmounted and mounted again, while the       *)
(* bridges run OAuth flows and sign out.                                   *)
(***************************************************************************)
LifecycleNext ==
    \/ \E b \in MockBridges : activate(b)
    \/ \E b \in MockBridges : switchManager(b)
    \/ deactivate
    \/ \E b \in MockBridges, timestamp \in Timestamps : startOAuth(b, "google", timestamp)
    \/ \E timestamp \in Timestamps : oauthTimer(timestamp)
    \/ \E b \in MockBridges, timestamp \in Timestamps : signOut(b, timestamp)
    \/ \E i \in 1..Len(refreshes) : refreshDone(i)

SpecLifecycle == Init /\ [][LifecycleNext]_vars

(***************************************************************************)
(* The native bridge with the adapter and test listeners on it, its        *)
(* operations called with the native module absent, answering or failing.  *)
(***************************************************************************)
NativeOpsNext ==
    \/ activate(NativeBridge)
    \/ RegistryNext(NativeBridge)
    \/ \E event \in TestEvents, timestamp \in Timestamps :
          handleNativeEvent(event.status, event.data, timestamp)
    \/ \E provider \in OAuthProviders, timestamp \in Timestamps,
          outcome \in NativeFailures \cup {Resolves(TRUE), Resolves(FALSE)} :
          NativeAuthBridge_startOAuth(provider, outcome, timestamp)
    \/ \E outcome \in NativeFailures \cup {Resolves(session) : session \in NativeSessions} :
          NativeAuthBridge_getSession(outcome)
    \/ \E outcome \in NativeFailures \cup {Resolves(TRUE), Resolves(FALSE)} :
          NativeAuthBridge_signOut(outcome)
    \/ \E outcome \in NativeFailures \cup {Resolves(response) : response \in NativeResponses} :
          NativeAuthBridge_callWithAuth(Request(UserInfoPath, NoBody), outcome)
    \/ \E outcome \in NativeFailures \cup {NoModuleReady, Resolves(TRUE), Resolves(FALSE)} :
          NativeAuthBridge_isHealthy(outcome)

SpecNativeOps == Init /\ [][NativeOpsNext]_vars

(***************************************************************************)
(* The adapter on one simulated bridge, session loads taken in two steps   *)
(* (the bridge is read, the result is applied), with logins, logouts and   *)
(* OAuth flows in between.                                                 *)
(***************************************************************************)
StaleNext ==
    \/ activate("mock1")
    \/ refreshSession
    \/ \E i \in 1..Len(refreshes) : sessionRead(i)
    \/ \E i \in 1..Len(refreshes) : sessionResolved(i)
    \/ \E provider \in OAuthProviders, timestamp \in Timestamps :
          /\ Len(timers) < MaxFlows
          /\ startOAuth("mock1", provider, timestamp)
    \/ \E timestamp \in Timestamps : oauthTimer(timestamp)
    \/ \E timestamp \in Timestamps : signOut("mock1", timestamp)
    \/ \E request \in SessionRequests, timestamp \in Timestamps :
          callWithAuth("mock1", request, timestamp)

SpecStale == Init /\ [][StaleNext]_vars

(***************************************************************************)
(* LoginMobileApp's Google login: the adapter is on the email manager's    *)
(* bridge (mock1). handleGoogleLogin sets the Google manager as current    *)
(* and calls startOAuth on it in the same turn; the effect that moves the  *)
(* listener to the Google bridge (mock2) runs after the next render, and   *)
(* the manager's call reaches the bridge at some point of the await. The   *)
(* source orders neither before the other.                                 *)
(***************************************************************************)
GoogleLoginAwaited ==
    \E i \in 1..Len(inflight) :
       inflight[i].op = "startOAuth" /\ inflight[i].instance = "googleAuthActions"

BridgeCalled == timers # <<>> \/ mockIsLoggedIn["mock2"]

GoogleLoginNext ==
    \/ activate("mock1")
    \/ /\ bridgeRef # NULL
       /\ handleGoogleLogin
    \/ /\ lastFlow = "google"
       /\ switchManager("mock2")
    \/ \E timestamp \in Timestamps :
          /\ GoogleLoginAwaited
          /\ ~BridgeCalled
          /\ startOAuth("mock2", "google", timestamp)
    \/ \E timestamp \in Timestamps : oauthTimer(timestamp)
    \/ \E i \in 1..Len(refreshes) : refreshDone(i)
    \/ \E i \in 1..Len(inflight) :
          /\ BridgeCalled
          /\ AuthActions_startOAuthSettled(i, Result(TRUE, NULL))
    \/ \E timestamp \in Timestamps : signOut("mock2", timestamp)

SpecGoogleLogin == Init /\ [][GoogleLoginNext]_vars

(***************************************************************************)
(* The factory asked for managers by several callers, the callers using    *)
(* the bridges of the managers they got, and cleanup.                      *)
(***************************************************************************)
ReturnedBridges == {given.manager : given \in factory.returned}

FactoryNext ==
    \/ \E provider \in FactoryProviders : createAuthManager(provider)
    \/ \E i \in 1..Len(factory.pending) : initializeBridge(i)
    \/ \E i \in 1..Len(factory.pending) : performHealthCheck(i)
    \/ ReactNativeAuthFactory_cleanup
    \/ \E b \in ReturnedBridges : addAuthStatusListener(b, "f")
    \/ \E b \in ReturnedBridges, timestamp \in Timestamps :
          callWithAuth(b, Request(LoginPath, JsonBody("a@example.com", TestCode)), timestamp)

SpecFactory == Init /\ [][FactoryNext]_vars

(***************************************************************************)
SignedOutAfter(b) ==
    /\ ~mockIsLoggedIn[b]
    /\ mockUserInfo[b] = NullUser
    /\ last.emitted = <<Event("signed_out", NoData)>>
    /\ Registered(b) =>
          /\ authState.lastEvent.status = "signed_out"
          /\ ~authState.isLoggedIn

SignOutIdempotent ==
    /\ last.op = "signOut" =>
          /\ last.ret = TRUE
          /\ SignedOutAfter(last.bridge)
    /\ (last.op = "callWithAuth" /\ Route(last.arg) \in {"logout", "googleLogout"}) =>
          /\ last.ret.ok
          /\ last.ret.status = 200
          /\ SignedOutAfter(last.bridge)

SignOutIdempotentWitness ==
    /\ last.op = "signOut"
    /\ ~last.before
    /\ last.ret = TRUE
    /\ last.emitted = <<Event("signed_out", NoData)>>
    /\ Registered(last.bridge)
    /\ authState.lastEvent.status = "signed_out"

TestBridges == {"mock1", NativeBridge}

Registry(b) == World(b).listeners

Listens(b, l) == indexOf(Registry(b), l) > 0

Occurrences(ls, l) == Cardinality({i \in 1..Len(ls) : ls[i] = l})

\* The calls of the last operation that went to listener l, in order.
CallsTo(l) == SelectSeq(calls, LAMBDA c : c.listener = l)

(***************************************************************************)
(* C11: removeAuthStatusListener(l) on a bridge where l is registered once *)
(* leaves l unregistered, and no operation on a bridge calls a listener    *)
(* that is not registered on it when the operation starts: after its       *)
(* removal l hears nothing, the success of an OAuth flow started earlier   *)
(* included.                                                               *)
(***************************************************************************)
RemovedListenerHearsNothing ==
    [][\A b \in TestBridges, l \in TestListeners :
          /\ (Occurrences(Registry(b), l) = 1 /\ removeAuthStatusListener(b, l)) =>
                indexOf(IF b = NativeBridge THEN listeners' ELSE mockAuthListeners'[b], l) = 0
          /\ (/\ last'.bridge = b
              /\ last'.op # "addAuthStatusListener"
              /\ ~Listens(b, l)) =>
                \A i \in 1..Len(calls') : calls'[i].listener # l
      ]_vars

RemovedListenerHearsNothingWitness ==
    /\ last.op = "removeAuthStatusListener"
    /\ last.bridge = "mock1"
    /\ last.arg = "f"
    /\ last.ret > 0
    /\ ~Listens("mock1", "f")
    /\ Registry("mock1") # <<>>
    /\ timers # <<>>

(***************************************************************************)
(* C12: an operation on one simulated bridge instance leaves the session   *)
(* and the listeners of every other instance as they were, and calls no    *)
(* listener that is registered only on another instance.                   *)
(***************************************************************************)
InstancesShareNothing ==
    [][\A b \in MockBridges, other \in MockBridges :
          (last'.bridge = b /\ other # b) =>
              /\ mockIsLoggedIn'[other] = mockIsLoggedIn[other]
              /\ mockUserInfo'[other] = mockUserInfo[other]
              /\ mockAuthListeners'[other] = mockAuthListeners[other]
              /\ \A i \in 1..Len(calls') : calls'[i].listener # ListenerOf(other)
      ]_vars

InstancesShareNothingWitness ==
    /\ last.op = "signOut"
    /\ last.bridge = "mock2"
    /\ calls = <<Call("g", "signed_out")>>
    /\ Listens("mock1", "f")
    /\ mockIsLoggedIn["mock1"]
    /\ mockUserInfo["mock1"] = oauthUserInfo("google")
    /\ ~mockIsLoggedIn["mock2"]

(***************************************************************************)
(* C13: when a listener that throws is registered among listeners that do  *)
(* nothing but record the call, an operation that broadcasts an event      *)
(* calls every registered listener once, in registration order, and ends   *)
(* as it does without the throwing listener: it returns its result and     *)
(* writes the session.                                                     *)
(***************************************************************************)
UsualOutcome ==
    /\ last.op = "startOAuth" =>
          /\ last.ret = TRUE
          /\ timers # <<>>
          /\ timers[Len(timers)] = [bridge |-> last.bridge, provider |-> last.arg]
          /\ mockIsLoggedIn[last.bridge] = last.before
    /\ last.op = "signOut" =>
          /\ last.ret = TRUE
          /\ getSession(last.bridge) = {LoggedOutSession}
    /\ last.op = "oauthTimer" =>
          getSession(last.bridge) =
              {[isLoggedIn |-> TRUE, userInfo |-> oauthUserInfo(last.arg)]}
    /\ last.op = "callWithAuth" =>
          /\ last.ret.ok
          /\ last.ret.status = 200
          /\ getSession(last.bridge) =
                IF last.emitted[1].status = "success"
                THEN {[isLoggedIn |-> TRUE, userInfo |-> last.ret.user]}
                ELSE {LoggedOutSession}

ThrowingListenerIsContained ==
    [][\A b \in TestBridges :
          (/\ last'.bridge = b
           /\ Len(last'.emitted) = 1
           /\ Listens(b, "thrower")
           /\ \A i \in 1..Len(Registry(b)) : Registry(b)[i] \in {"thrower", "f"}) =>
              /\ calls' = [i \in 1..Len(Registry(b)) |->
                              Call(Registry(b)[i], last'.emitted[1].status)]
              /\ UsualOutcome'
      ]_vars

ThrowingListenerIsContainedWitness ==
    /\ last.op = "oauthTimer"
    /\ Registry("mock1") = <<"thrower", "f">>
    /\ calls = <<Call("thrower", "success"), Call("f", "success")>>
    /\ mockIsLoggedIn["mock1"]

\* The listeners of the array `before` that are still in the array `after`.
Kept(before, after) == SelectSeq(before, LAMBDA l : indexOf(after, l) > 0)

\* The calls among cs that carried the status.
Heard(cs, status) == SelectSeq(cs, LAMBDA c : c.status = status)

\* The calls among cs that went to a listener of the array ls.
HeardBy(cs, ls) == SelectSeq(cs, LAMBDA c : indexOf(ls, c.listener) > 0)

RegistryAfter(b) == IF b = NativeBridge THEN listeners' ELSE mockAuthListeners'[b]

(***************************************************************************)
(* C14: an operation that broadcasts an event calls with it, once each and *)
(* in registration order, the listeners that are registered when it starts *)
(* and still registered when it ends, whatever the listeners do to the     *)
(* registry from inside their callbacks.                                   *)
(***************************************************************************)
BroadcastReachesAllRegistered ==
    [][\A b \in TestBridges :
          (last'.bridge = b /\ Len(last'.emitted) = 1) =>
              LET kept == Kept(Registry(b), RegistryAfter(b))
                  heard == Heard(calls', last'.emitted[1].status)
              IN  HeardBy(heard, kept) =
                      [i \in 1..Len(kept) |-> Call(kept[i], last'.emitted[1].status)]
      ]_vars

(***************************************************************************)
(* C15: the calls an operation makes to the listeners never show one event *)
(* between two deliveries of another: every listener has received an event *)
(* before any listener receives the next one, also when a listener calls   *)
(* signOut from inside its callback.                                       *)
(***************************************************************************)
NoMidBroadcastInterleaving ==
    \A i, j, k \in 1..Len(calls) :
        (i < j /\ j < k /\ calls[i].status = calls[k].status) =>
            calls[j].status = calls[i].status

(***************************************************************************)
(* C16: the registry is a set of listeners: an operation calls no listener *)
(* twice with the same event, however often the listener was added, and    *)
(* after removeAuthStatusListener(l) the listener l is not registered.     *)
(***************************************************************************)
RegistryIsASet ==
    /\ \A i, j \in 1..Len(calls) : calls[i] = calls[j] => i = j
    /\ last.op = "removeAuthStatusListener" => ~Listens(last.bridge, last.arg)

(***************************************************************************)
(* C17: the session getSession() reports on a simulated bridge changes     *)
(* only as follows: an operation that broadcasts success (the OAuth timer, *)
(* a matching email login) makes it logged in with the user of that event; *)
(* signOut, a logout call and cleanup make it logged out with no user; any *)
(* other step leaves it as it was. It starts logged out.                   *)
(***************************************************************************)
BroadcastsSuccess(op) ==
    /\ op.emitted # <<>>
    /\ op.emitted[1].status = "success"

EndsSession(op) ==
    \/ op.op \in {"signOut", "cleanup"}
    \/ op.emitted # <<>> /\ op.emitted[1].status = "signed_out"

SessionIsLive ==
    /\ \A b \in MockBridges : getSession(b) = {LoggedOutSession}
    /\ [][\A b \in MockBridges :
             IF last'.bridge = b /\ BroadcastsSuccess(last')
             THEN getSession(b)' =
                     {[isLoggedIn |-> TRUE, userInfo |-> last'.emitted[1].data.user]}
             ELSE IF last'.bridge = b /\ EndsSession(last')
             THEN getSession(b)' = {LoggedOutSession}
             ELSE getSession(b)' = getSession(b)
         ]_vars

SessionIsLiveWitness ==
    /\ last.op = "cleanup"
    /\ last.before
    /\ getSession(last.bridge) = {LoggedOutSession}
    /\ timers # <<>>
    /\ \E b \in MockBridges : mockIsLoggedIn[b]

(***************************************************************************)
(* C18: applying a signed_out or a success event a second time changes     *)
(* nothing but lastEvent.timestamp: for every AuthState s the adapter can  *)
(* hold and every payload, reduce(reduce(s, e), e) equals reduce(s, e) in  *)
(* every other field.                                                      *)
(***************************************************************************)
ReplayStatuses == {"signed_out", "success"}

\* Date.now() of the first and of the second application.
ReplayTimestamps == {1000, 2000}

SameButTimestamp(s, t) ==
    [s EXCEPT !.lastEvent.timestamp = t.lastEvent.timestamp] = t

ReplayIsIdempotent ==
    \A status \in ReplayStatuses, data \in NativeData, first, second \in ReplayTimestamps :
        LET once == handleAuthEvent(authState, status, data, first)
            twice == handleAuthEvent(once, status, data, second)
        IN  SameButTimestamp(twice, once)

\* The adapter holds reduce(s, success) of a state s that was in an OAuth
\* flow, and the same event arriving later moves the timestamp and nothing else.
ReplayIsIdempotentWitness ==
    /\ bridgeRef = NativeBridge
    /\ last.op = "handleNativeEvent"
    /\ last.arg.status = "success"
    /\ last.arg.data.user # NullUser
    /\ authState.lastEvent.status = "success"
    /\ authState.oauthProvider # NULL
    /\ LET replayed == handleAuthEvent(authState, "success", last.arg.data, 2000)
       IN  /\ replayed # authState
           /\ SameButTimestamp(replayed, authState)

(***************************************************************************)
(* C19: whatever event the bridge delivers to the adapter, one of the six  *)
(* statuses or a status the reducer does not know, the reducer accepts it  *)
(* and lastEvent.status and lastEvent.data are the event's afterwards; an  *)
(* event of an unknown status changes no field but lastEvent.              *)
(***************************************************************************)
AdapterHears(op) ==
    /\ op.op = "handleNativeEvent"
    /\ bridgeRef = NativeBridge

LastEventIsTheEvent ==
    [][AdapterHears(last') =>
          /\ authState'.lastEvent.status = last'.arg.status
          /\ authState'.lastEvent.data = last'.arg.data
          /\ last'.arg.status \notin Statuses =>
                authState' = [authState EXCEPT !.lastEvent = authState'.lastEvent]
      ]_vars

\* An unknown status reached a logged-in adapter that showed an error.
LastEventIsTheEventWitness ==
    /\ bridgeRef = NativeBridge
    /\ last.op = "handleNativeEvent"
    /\ last.arg.status = "future_status"
    /\ last.arg.data.user # NullUser
    /\ authState.lastEvent.status = "future_status"
    /\ authState.lastEvent.data = last.arg.data
    /\ authState.isLoggedIn
    /\ authState.error # NULL
    /\ authState.userInfo # last.arg.data.user

(***************************************************************************)
(* C20: a success event the adapter receives leaves it logged in, not      *)
(* loading, with no OAuth flow in progress and no error; userInfo is the   *)
(* event's user when the event has one and is what it was otherwise.       *)
(***************************************************************************)
SuccessRow ==
    [][(AdapterHears(last') /\ last'.arg.status = "success") =>
          /\ authState'.isLoggedIn
          /\ ~authState'.isLoading
          /\ ~authState'.isOAuthInProgress
          /\ authState'.error = NULL
          /\ authState'.userInfo = IF last'.arg.data.user # NullUser
                                   THEN last'.arg.data.user
                                   ELSE authState.userInfo
          /\ authState'.oauthProvider = authState.oauthProvider
      ]_vars

\* A success without a user arrived at an adapter that already held one.
SuccessRowWitness ==
    /\ bridgeRef = NativeBridge
    /\ last.op = "handleNativeEvent"
    /\ last.arg.status = "success"
    /\ last.arg.data.user = NullUser
    /\ authState.lastEvent.status = "success"
    /\ authState.isLoggedIn
    /\ authState.userInfo # NullUser
    /\ authState.error = NULL

(***************************************************************************)
(* C21: an error event the adapter receives leaves it not loading and with *)
(* no OAuth flow in progress, leaves isLoggedIn and userInfo as they were, *)
(* and sets error to a non-empty string: the event's error text when it    *)
(* has a non-empty one, the generic message otherwise.                     *)
(***************************************************************************)
ErrorRow ==
    [][(AdapterHears(last') /\ last'.arg.status = "error") =>
          /\ ~authState'.isLoading
          /\ ~authState'.isOAuthInProgress
          /\ authState'.isLoggedIn = authState.isLoggedIn
          /\ authState'.userInfo = authState.userInfo
          /\ authState'.error \notin {NULL, ""}
          /\ authState'.error = IF last'.arg.data.error \notin {NULL, ""}
                                THEN last'.arg.data.error
                                ELSE GenericAuthError
      ]_vars

\* An error event with an empty error text arrived at a logged-in adapter.
ErrorRowWitness ==
    /\ bridgeRef = NativeBridge
    /\ last.op = "handleNativeEvent"
    /\ last.arg.status = "error"
    /\ last.arg.data.error = ""
    /\ authState.lastEvent.status = "error"
    /\ authState.error = GenericAuthError
    /\ authState.isLoggedIn
    /\ authState.userInfo # NullUser

(***************************************************************************)
(* C22: a token_refreshed event changes nothing in the AuthState but       *)
(* lastEvent; a callback_received event sets isLoading and lastEvent and   *)
(* changes nothing else.                                                   *)
(***************************************************************************)
FrameOfQuietEvents ==
    [][/\ (AdapterHears(last') /\ last'.arg.status = "token_refreshed") =>
             authState' = [authState EXCEPT !.lastEvent = authState'.lastEvent]
       /\ (AdapterHears(last') /\ last'.arg.status = "callback_received") =>
             authState' = [authState EXCEPT !.lastEvent = authState'.lastEvent,
                                            !.isLoading = TRUE]
      ]_vars

\* A callback_received event arrived at an adapter that was not loading and
\* showed an error; the error is still there.
FrameOfQuietEventsWitness ==
    /\ bridgeRef = NativeBridge
    /\ last.op = "handleNativeEvent"
    /\ last.arg.status = "callback_received"
    /\ authState.lastEvent.status = "callback_received"
    /\ authState.isLoading
    /\ authState.error # NULL
    /\ authState.isLoggedIn
    /\ ~authState.isOAuthInProgress

(***************************************************************************)
(* What a consumer of onStateChange holds: each notification is a partial  *)
(* AuthState, merged over the state held so far ({...prev, ...partial}).   *)
(***************************************************************************)
Merge(state, partial) ==
    [field \in DOMAIN state |->
        IF field \in DOMAIN partial THEN partial[field] ELSE state[field]]

RECURSIVE MergeAll(_, _)
MergeAll(state, effects) ==
    IF effects = <<>> THEN state
    ELSE IF Head(effects).kind = "notify"
    THEN MergeAll(Merge(state, Head(effects).state), Tail(effects))
    ELSE MergeAll(state, Tail(effects))

ReportsFailure(verb) ==
    /\ verb.op \in {"startOAuth", "signOut", "refreshSession"}
    /\ verb.phase = "returned"
    /\ IF verb.op = "refreshSession" THEN verb.ret.value.null ELSE ~verb.ret.value

(***************************************************************************)
(* C24: when startOAuth or signOut returned false, or refreshSession       *)
(* returned null, the AuthState merged from the verb's notifications is    *)
(* not loading and has a non-empty error.                                  *)
(***************************************************************************)
FailureLeavesError ==
    ReportsFailure(last) =>
        LET merged == MergeAll(authState, last.effects)
        IN  /\ ~merged.isLoading
            /\ merged.error \notin {NULL, ""}

(***************************************************************************)
(* C25: startOAuth(provider) first notifies loading, in progress, no error *)
(* and the provider, and only then calls the manager. When the manager     *)
(* reports failure it notifies once more, not loading, not in progress and *)
(* the error, and returns false; when the manager reports success it       *)
(* returns true and has notified nothing more, whatever events the bridge  *)
(* delivered meanwhile.                                                    *)
(***************************************************************************)
StartOAuthCalled(verb) ==
    <<Notify([isLoading |-> TRUE, isOAuthInProgress |-> TRUE, error |-> NULL,
              oauthProvider |-> verb.arg]),
      Invoke("startNativeOAuth", verb.arg)>>

StartOAuthNotifications ==
    /\ \A i \in 1..Len(inflight) :
          inflight[i].op = "startOAuth" => inflight[i].effects = StartOAuthCalled(inflight[i])
    /\ last.op = "startOAuth" =>
           /\ SubSeq(last.effects, 1, 2) = StartOAuthCalled(last)
           /\ last.phase = "awaiting" => Len(last.effects) = 2
           /\ (last.phase = "returned" /\ last.outcome.kind = "result") =>
                 IF last.outcome.success
                 THEN /\ last.ret = Returned(TRUE)
                      /\ Len(last.effects) = 2
                 ELSE /\ last.ret = Returned(FALSE)
                      /\ Len(last.effects) = 3
                      /\ last.effects[3].kind = "notify"
                      /\ ~last.effects[3].state.isLoading
                      /\ ~last.effects[3].state.isOAuthInProgress
                      /\ last.effects[3].state.error \notin {NULL, ""}
                      /\ last.outcome.message \notin {NULL, ""} =>
                            last.effects[3].state.error = last.outcome.message

\* The manager reported success after the bridge had delivered the success
\* event to the adapter: startOAuth returned true with its one notification.
StartOAuthNotificationsWitness ==
    /\ last.op = "startOAuth"
    /\ last.phase = "returned"
    /\ last.outcome = Result(TRUE, NULL)
    /\ last.ret = Returned(TRUE)
    /\ Len(last.effects) = 2
    /\ bridgeRef = NativeBridge
    /\ authState.lastEvent.status = "success"

(***************************************************************************)
(* C26: when signOut returned true, its success notification and the       *)
(* bridge's signed_out event give the same AuthState in whichever order    *)
(* they are applied, and with the event applied once or twice: logged out, *)
(* no user, not loading (the timestamp of lastEvent is that of the last    *)
(* delivery).                                                              *)
(***************************************************************************)
SignedOutAt(state, timestamp) == handleAuthEvent(state, "signed_out", NoData, timestamp)

\* The last effect of a signOut that returned true: its success notification.
SuccessNotification(verb) == verb.effects[Len(verb.effects)].state

SignOutOrders(state, partial) ==
    {Merge(SignedOutAt(state, 1000), partial),
     SignedOutAt(Merge(state, partial), 1000),
     Merge(SignedOutAt(SignedOutAt(state, 1000), 2000), partial),
     SignedOutAt(Merge(SignedOutAt(state, 1000), partial), 2000),
     SignedOutAt(SignedOutAt(Merge(state, partial), 1000), 2000)}

SignOutCommutes ==
    (last.op = "signOut" /\ last.phase = "returned" /\ last.ret = Returned(TRUE)) =>
        \A state \in {authState, Merge(authState, signOutStarted)} :
            \A s, t \in SignOutOrders(state, SuccessNotification(last)) :
                /\ SameButTimestamp(s, t)
                /\ ~s.isLoggedIn
                /\ s.userInfo = NullUser
                /\ ~s.isLoading

\* signOut returned true while the adapter was logged in with a user, after
\* an OAuth flow, and no signed_out event has arrived yet.
SignOutCommutesWitness ==
    /\ last.op = "signOut"
    /\ last.phase = "returned"
    /\ last.ret = Returned(TRUE)
    /\ SuccessNotification(last) = signOutSucceeded
    /\ authState.isLoggedIn
    /\ authState.userInfo # NullUser
    /\ authState.oauthProvider # NULL
    /\ authState.lastEvent.status = "success"

(***************************************************************************)
(* C27: signOut calls the manager's logout with the kind of the flow that  *)
(* was started last: google after a Google OAuth start, email otherwise,   *)
(* on whichever AuthActions instance the flow was started.                 *)
(***************************************************************************)
LogoutCall(verb) == verb.effects[2]

SignOutFollowsFlow ==
    last.op = "signOut" =>
        /\ LogoutCall(last).method = "logout"
        /\ LogoutCall(last).arg = lastFlow

(***************************************************************************)
(* C28: callProtectedAPI calls the manager's callProtectedAPI once, with   *)
(* the url and method it was given and the body as JSON text; it returns   *)
(* what the manager resolved with and throws what the manager threw; it    *)
(* notifies nothing, and the AuthState is not changed by it.               *)
(***************************************************************************)
Forwarded(config) == Config(config.url, config.method, stringifyBody(config.body))

IsApiCall(verb) == verb.op = "callProtectedAPI"

CallProtectedAPIPassesThrough ==
    /\ [](IsApiCall(last) =>
             /\ last.effects = <<Invoke("callProtectedAPI", Forwarded(last.arg))>>
             /\ last.phase = "returned" =>
                   IF last.outcome.kind = "throw"
                   THEN last.ret = Rethrown(last.outcome)
                   ELSE last.ret = Returned(last.outcome.value))
    /\ [][IsApiCall(last') => authState' = authState]_vars

\* callProtectedAPI with an object body threw the Error the manager threw,
\* at an adapter that is logged in.
CallProtectedAPIPassesThroughWitness ==
    /\ IsApiCall(last)
    /\ last.phase = "returned"
    /\ last.arg.body.kind = "object"
    /\ last.outcome = Thrown(TRUE, "E1")
    /\ last.ret = Rethrown(Thrown(TRUE, "E1"))
    /\ last.effects[1].arg.body = JsonBody("a@example.com", TestCode)
    /\ authState.isLoggedIn

(***************************************************************************)
(* C29: while the session load the effect started on activation has not    *)
(* been applied, no event of the bridge is reduced into the AuthState.     *)
(***************************************************************************)
InitialLoadPending == \E i \in 1..Len(refreshes) : refreshes[i].initial

SessionSeededBeforeEvents ==
    [][InitialLoadPending => ~AdapterHears(last')]_vars

(***************************************************************************)
(* C30: when a refreshSession of the adapter succeeds, isLoggedIn and      *)
(* userInfo become what getSession returned and error is cleared, while    *)
(* lastEvent, isOAuthInProgress and oauthProvider stay as they were; when  *)
(* it fails, isLoggedIn and userInfo stay as they were and error becomes   *)
(* the message of what was thrown.                                         *)
(***************************************************************************)
RefreshFrame(before, after) ==
    /\ after.lastEvent = before.lastEvent
    /\ after.isOAuthInProgress = before.isOAuthInProgress
    /\ after.oauthProvider = before.oauthProvider

RefreshOverwritesSession ==
    [][/\ last'.op = "refreshDone" =>
             /\ \E i \in 1..Len(refreshes) :
                   \E session \in getSession(refreshes[i].mgr) :
                       /\ authState'.isLoggedIn = session.isLoggedIn
                       /\ authState'.userInfo = session.userInfo
             /\ authState'.error = NULL
             /\ RefreshFrame(authState, authState')
       /\ last'.op = "refreshFail" =>
             /\ authState'.isLoggedIn = authState.isLoggedIn
             /\ authState'.userInfo = authState.userInfo
             /\ authState'.error \in RefreshFailures
             /\ authState'.error # NULL
             /\ RefreshFrame(authState, authState')
      ]_vars

\* A refreshSession succeeded in the middle of an OAuth flow: the session is
\* the one getSession returned, and the flow's fields are untouched.
RefreshOverwritesSessionWitness ==
    /\ last.op = "refreshDone"
    /\ authState.isLoggedIn
    /\ authState.userInfo # NullUser
    /\ authState.error = NULL
    /\ authState.lastEvent.status = "started"
    /\ authState.isOAuthInProgress
    /\ authState.oauthProvider # NULL

(***************************************************************************)
(* C23: with the adapter on a simulated bridge, whenever the AuthState is  *)
(* loading it is eventually not loading, whatever the caller does          *)
(* (startOAuth, signOut, email calls, refreshSession, clearError, giving   *)
(* the adapter another manager), provided timers fire and awaited session  *)
(* calls settle.                                                           *)
(***************************************************************************)
LoadingEnds == authState.isLoading ~> ~authState.isLoading

\* The adapter was given the other manager while an OAuth flow it had heard
\* start was still running; the load it then began has been applied.
LoadingEndsWitness ==
    /\ bridgeRef = "mock2"
    /\ last.op \in {"refreshDone", "refreshFail"}
    /\ ~authState.isLoading
    /\ authState.isOAuthInProgress
    /\ authState.lastEvent.status = "started"
    /\ timers # <<>>
    /\ Head(timers).bridge = "mock1"

(***************************************************************************)
(* C31: the adapter's listener is registered once on the bridge of the     *)
(* manager the adapter is activated with and on no other bridge, and on no *)
(* bridge at all while the adapter is not activated.                       *)
(***************************************************************************)
AdapterListensOnce ==
    /\ \A b \in MockBridges :
          Occurrences(mockAuthListeners[b], Adapter) = IF b = bridgeRef THEN 1 ELSE 0
    /\ Occurrences(listeners, Adapter) = 0

\* The adapter was given the second manager after it had heard an OAuth
\* flow start on the first bridge, where the flow is still running.
AdapterListensOnceWitness ==
    /\ last.op = "switchManager"
    /\ bridgeRef = "mock2"
    /\ mockAuthListeners["mock2"] = <<Adapter>>
    /\ mockAuthListeners["mock1"] = <<>>
    /\ authState.lastEvent.status = "started"
    /\ timers # <<>>
    /\ Head(timers).bridge = "mock1"

(***************************************************************************)
(* C32: cleanup() leaves the simulated bridge with no listeners and logged *)
(* out with no user, and a step that is not an operation called on the     *)
(* bridge (the completion timer of an earlier OAuth flow) leaves it so.     *)
(***************************************************************************)
CleanedUp(b) ==
    /\ mockAuthListeners[b] = <<>>
    /\ getSession(b) = {LoggedOutSession}

CleanupIsFinal ==
    /\ [](last.op = "cleanup" => CleanedUp(last.bridge))
    /\ [][\A b \in MockBridges :
             (CleanedUp(b) /\ last.op = "cleanup" /\ last.bridge = b /\ last'.op = "oauthTimer")
                => CleanedUp(b)'
         ]_vars

(***************************************************************************)
(* C33: when callWithAuth on the simulated bridge answers ok with status   *)
(* 200 to a request that is none of the verification, login and logout     *)
(* operations, the bridge's session was logged in when the call was made.  *)
(***************************************************************************)
SuccessImpliesSession ==
    (/\ last.op = "callWithAuth"
     /\ Routes[last.arg] = "default"
     /\ last.ret.ok
     /\ last.ret.status = 200)
        => last.before

(***************************************************************************)
(* C34: a request-verification call and a call to a destination outside    *)
(* the routed operations answer success with status 200, broadcast no      *)
(* event and leave the bridge's session and its listeners' AuthState as    *)
(* they were, whether the bridge is logged in or not.                      *)
(***************************************************************************)
IsPlainCall(op) ==
    /\ op.op = "callWithAuth"
    /\ Routes[op.arg] \in {"request", "default"}

PlainCallsOnlyAnswer ==
    [][IsPlainCall(last') =>
          /\ last'.ret = Response(200, TRUE, TRUE, NullUser)
          /\ last'.emitted = <<>>
          /\ mockIsLoggedIn' = mockIsLoggedIn
          /\ mockUserInfo' = mockUserInfo
          /\ authState' = authState
      ]_vars

\* A request-verification call on a logged-out bridge the adapter listens
\* to, while an OAuth flow is running.
PlainCallsOnlyAnswerWitness ==
    /\ IsPlainCall(last)
    /\ Routes[last.arg] = "request"
    /\ ~last.before
    /\ ~mockIsLoggedIn[last.bridge]
    /\ last.ret.ok
    /\ Registered(last.bridge)
    /\ timers # <<>>

(***************************************************************************)
(* C35: when the native module is absent or its call fails, startOAuth     *)
(* answers false and tells each registered listener one error event with   *)
(* the message and the provider; getSession answers {isLoggedIn: false};   *)
(* signOut answers false and isHealthy answers false, telling nobody;      *)
(* callWithAuth answers success=false with status 500 and the message.     *)
(* Delivery is stated for registries without a listener that unregisters   *)
(* itself inside its callback.                                             *)
(***************************************************************************)
NativeCallFails(op) ==
    /\ op.bridge = NativeBridge
    /\ op.op \in {"NativeAuthBridge.startOAuth", "NativeAuthBridge.getSession",
                  "NativeAuthBridge.signOut", "NativeAuthBridge.callWithAuth",
                  "NativeAuthBridge.isHealthy"}
    /\ op.arg.outcome.kind \in {"absent", "throw"}

ErrorEventOf(op) ==
    Event("error", Data(op.arg.input, NullUser, op.arg.outcome.message))

NativeFailuresAreAnswers ==
    [][NativeCallFails(last') =>
          CASE last'.op = "NativeAuthBridge.startOAuth" ->
                  /\ last'.ret = FALSE
                  /\ last'.emitted = <<ErrorEventOf(last')>>
                  /\ \A i \in 1..Len(calls') : calls'[i].status = "error"
                  /\ ~Listens(NativeBridge, "once") =>
                        /\ \A i \in 1..Len(listeners) :
                              listeners[i] \in Spies =>
                                 Occurrences(calls', Call(listeners[i], "error"))
                                    = Occurrences(listeners, listeners[i])
                        /\ Listens(NativeBridge, Adapter) =>
                              /\ authState'.lastEvent.status = "error"
                              /\ authState'.lastEvent.data = ErrorEventOf(last').data
            [] last'.op = "NativeAuthBridge.getSession" ->
                  /\ last'.ret = LoggedOutSession
                  /\ last'.emitted = <<>> /\ calls' = <<>> /\ authState' = authState
            [] last'.op = "NativeAuthBridge.callWithAuth" ->
                  /\ last'.ret = NativeCallFailed(last'.arg.outcome.message)
                  /\ last'.emitted = <<>> /\ calls' = <<>> /\ authState' = authState
            [] OTHER ->
                  /\ last'.ret = FALSE
                  /\ last'.emitted = <<>> /\ calls' = <<>> /\ authState' = authState
      ]_vars

\* startOAuth found the native module absent while the adapter and a
\* throwing listener were registered.
NativeFailuresAreAnswersWitness ==
    /\ last.op = "NativeAuthBridge.startOAuth"
    /\ last.arg.outcome = Absent
    /\ last.ret = FALSE
    /\ Listens(NativeBridge, Adapter)
    /\ Listens(NativeBridge, "thrower")
    /\ authState.error = ModuleNotLoaded
    /\ authState.lastEvent.data.provider = last.arg.input

(***************************************************************************)
(* C36: while no session load is in flight, the AuthState of an adapter    *)
(* registered on a bridge shows the session that bridge reports: the same  *)
(* isLoggedIn and the same userInfo. (Events are delivered inside the      *)
(* operation that emits them, so none is pending between two steps.)       *)
(***************************************************************************)
StateShowsSession ==
    (/\ bridgeRef \in MockBridges
     /\ Listens(bridgeRef, Adapter)
     /\ refreshes = <<>>)
    => /\ authState.isLoggedIn = mockIsLoggedIn[bridgeRef]
       /\ authState.userInfo = mockUserInfo[bridgeRef]

(***************************************************************************)
(* C37: when the Google bridge emits `started` for the login the app       *)
(* triggered, the adapter's listener is already on that bridge and the     *)
(* event is applied: isOAuthInProgress and isLoading are set.              *)
(***************************************************************************)
StartedIsHeard ==
    [][(/\ GoogleLoginAwaited
        /\ last'.op = "startOAuth"
        /\ last'.bridge = "mock2")
       => /\ Listens("mock2", Adapter)
          /\ authState'.lastEvent.status = "started"
          /\ authState'.isOAuthInProgress
          /\ authState'.isLoading]_vars

(***************************************************************************)
(* C38: the response ReactNativeHttpClient.request returns for a reply of  *)
(* the simulated bridge has ok=true exactly when the reply reported        *)
(* success with a 2xx status, ok=false for the status-400 replies, and     *)
(* ok=true only with a 2xx status.                                         *)
(***************************************************************************)
OkFollowsReply ==
    (last.op = "callWithAuth" /\ last.bridge \in MockBridges /\ last.ret # Rejected)
    => LET response == ReactNativeHttpClient_request(last.ret)
           reported == /\ last.ret.success
                       /\ last.ret.status >= 200
                       /\ last.ret.status < 300
       IN  /\ (response.ok = "true") <=> reported
           /\ last.ret.status = 400 => response.ok = "false"
           /\ response.ok = "true" => (response.status >= 200 /\ response.status < 300)

(***************************************************************************)
(* C39: between two cleanups every caller of createEmailAuthManager gets   *)
(* the same manager, and likewise for createGoogleAuthManager, and the     *)
(* factory creates one bridge per manager kind.                            *)
(***************************************************************************)
OneManagerPerKind ==
    /\ \A one \in factory.returned, other \in factory.returned :
          one.provider = other.provider => one.manager = other.manager
    /\ \A one \in factory.created, other \in factory.created :
          one.provider = other.provider => one.bridge = other.bridge

(***************************************************************************)
(* C40: right after ReactNativeAuthFactory.cleanup every bridge created    *)
(* since the cleanup before has no listeners and reports logged out, and   *)
(* both cached managers are null.                                          *)
(***************************************************************************)
FactoryCleanupCleansAll ==
    last.op = "ReactNativeAuthFactory.cleanup"
    => /\ \A b \in last.arg : CleanedUp(b)
       /\ factory.emailAuthManager = NULL
       /\ factory.googleAuthManager = NULL

====
